---- MODULE Spec2Model ----
(***************************************************************************)
(* A model of lp-model: the Model aggregate (variable registry, expression *)
(* canonicalizer, constraint builder, solve dispatch), the LP-format       *)
(* writer and grammar, and the three solver bridges.                       *)
(***************************************************************************)
EXTENDS Integers, Sequences, FiniteSets, TLC

VARIABLES
    variables,    \* Model.variables: insertion-ordered Map name -> Var, as a sequence of Var records
    constraints,  \* Model.constraints: list of Constr records
    objective,    \* Model.objective: [expression, sense]
    varCount,     \* Model.varCount: counter of default variable names
    solution,     \* Model.solution: the engine's raw response
    status,       \* Model.status
    ObjVal,       \* Model.ObjVal
    pending,      \* solve calls suspended at `await solver.solve(...)` (glpk.js branch)
    call,         \* the last API call: its name and arguments
    ret           \* the outcome of the last API call

vars == <<variables, constraints, objective, varCount, solution, status, ObjVal, pending, call, ret>>

session == <<solution, status, ObjVal>>

----------------------------------------------------------------------------
(* JavaScript values.  Every value carries its type tag in field k, so      *)
(* that values of different JavaScript types can be compared.              *)

Num(n) == [k |-> "number", n |-> n]
NaN == [k |-> "NaN"]
Str(s) == [k |-> "string", s |-> s]
Null == [k |-> "null"]
Undefined == [k |-> "undefined"]
Bool(b) == [k |-> "boolean", b |-> b]
Arr(a) == [k |-> "array", a |-> a]
\* A reference to a Var instance.  own tells whether the instance was made by
\* this Model's addVar (and so is the one the registry holds under its name).
VarRef(name, own) == [k |-> "Var", name |-> name, own |-> own]
Own(name) == VarRef(name, TRUE)

\* typeof v === 'number' (NaN is a number)
IsNumber(v) == v.k \in {"number", "NaN"}

\* ToBoolean(v)
Truthy(v) ==
    CASE v.k = "number" -> v.n # 0
      [] v.k = "string" -> v.s # ""
      [] v.k = "boolean" -> v.b
      [] v.k \in {"array", "Var", "object"} -> TRUE
      [] OTHER -> FALSE

\* The string that `array + number` and `string + number` give: the text of
\* the array ("2,[object Object]") followed by the digits; never numeric.
ObjectText == Str("[object Object]")

\* a + b for the operand types the code meets (a += b)
JSAdd(a, b) ==
    CASE a.k = "number" /\ b.k = "number" -> Num(a.n + b.n)
      [] IsNumber(a) /\ IsNumber(b) -> NaN
      [] OTHER -> ObjectText

\* -v (unary minus: ToNumber, then negate)
JSNeg(v) == IF v.k = "number" THEN Num(-v.n) ELSE NaN

Threw == [threw |-> TRUE, value |-> Undefined]
Returned(v) == [threw |-> FALSE, value |-> v]
\* The outcome of a call that has not returned yet
Running == [running |-> TRUE]

----------------------------------------------------------------------------
(* Strings.  A JavaScript string is a TLA+ string; its characters are its  *)
(* substrings of length 1.                                                 *)

\* t[p - 1]: the character at position p (from 1), "" past the end
Ch(t, p) == IF 1 <= p /\ p <= Len(t) THEN SubSeq(t, p, p) ELSE ""

\* s.slice(p - 1)
From(s, p) == SubSeq(s, p, Len(s))

LowerLetters == "abcdefghijklmnopqrstuvwxyz"
UpperLetters == "ABCDEFGHIJKLMNOPQRSTUVWXYZ"
Digits == "0123456789"
\* The printable characters in the order of their code units (all but the
\* backquote, which a string cannot hold here)
CodeUnitOrder ==
    " !\"#$%&'()*+,-./0123456789:;<=>?@ABCDEFGHIJKLMNOPQRSTUVWXYZ[\\]^_abcdefghijklmnopqrstuvwxyz{|}~"

\* c is one of the characters of cls
Among(c, cls) == c # "" /\ \E i \in 1..Len(cls) : Ch(cls, i) = c
Position(c, cls) == CHOOSE i \in 1..Len(cls) : Ch(cls, i) = c

\* The characters of cls, and the place of each of them in cls
Chars(cls) == {Ch(cls, i) : i \in 1..Len(cls)}
Places(cls) == [c \in Chars(cls) |-> Position(c, cls)]
DigitChars == Chars(Digits)
DigitPlace == Places(Digits)
CodeUnit == Places(CodeUnitOrder)
ToUpper == [c \in Chars(LowerLetters) |-> Ch(UpperLetters, Position(c, LowerLetters))]
ToLower == [c \in Chars(UpperLetters) |-> Ch(LowerLetters, Position(c, UpperLetters))]

\* The string with every character in the table replaced by its image
RECURSIVE MapCase(_, _)
MapCase(s, table) ==
    IF s = "" THEN ""
    ELSE (IF Ch(s, 1) \in DOMAIN table THEN table[Ch(s, 1)] ELSE Ch(s, 1))
            \o MapCase(From(s, 2), table)

\* s.toUpperCase(), s.toLowerCase()
UpperCase(s) == MapCase(s, ToUpper)
LowerCase(s) == MapCase(s, ToLower)

\* a > b on strings: by the code units of the first characters that differ
RECURSIVE StrGT(_, _)
StrGT(a, b) ==
    IF a = "" THEN FALSE
    ELSE IF b = "" THEN TRUE
    ELSE IF Ch(a, 1) = Ch(b, 1) THEN StrGT(From(a, 2), From(b, 2))
    ELSE CodeUnit[Ch(a, 1)] > CodeUnit[Ch(b, 1)]

\* The number a string of digits writes
RECURSIVE IntOf(_)
IntOf(s) ==
    IF s = "" THEN 0
    ELSE 10 * IntOf(SubSeq(s, 1, Len(s) - 1)) + DigitPlace[Ch(s, Len(s))] - 1

\* The value of a key that is a canonical array index ("0", "2", "10"), else
\* -1: such keys come first, in numeric order, when an object's keys are listed.
ArrayIndex(key) ==
    IF key # "" /\ (\A i \in 1..Len(key) : Ch(key, i) \in DigitChars)
                /\ (Ch(key, 1) # "0" \/ key = "0")
    THEN IntOf(key)
    ELSE -1

----------------------------------------------------------------------------
(* Var, the registry                                                       *)

\* The registry is the Map's entries in insertion order: each entry is the key
\* and the fields of the Var stored under it.
\* this.variables.has(key)
Has(vs, key) == \E i \in 1..Len(vs) : vs[i].key = key
IndexOf(vs, key) == CHOOSE i \in 1..Len(vs) : vs[i].key = key
\* this.variables.get(key): a reference to the Var stored under the key
Get(vs, key) == IF Has(vs, key) THEN Own(vs[IndexOf(vs, key)].name) ELSE Undefined

\* A destructured option that is undefined takes its default
Default(v, d) == IF v = Undefined THEN d ELSE v

\* The body of Var's constructor, the defaults applied
VarBody(lb, ub, vtype, name) ==
    IF vtype.k # "string" THEN Threw
    ELSE IF UpperCase(vtype.s) \notin {"CONTINUOUS", "BINARY", "INTEGER"} THEN Threw
    ELSE IF ~IsNumber(lb) /\ lb # Str("-infinity") THEN Threw
    ELSE IF ~IsNumber(ub) /\ ub # Str("+infinity") THEN Threw
    ELSE Returned([name |-> name, lb |-> lb, ub |-> ub, vtype |-> UpperCase(vtype.s),
                   value |-> Undefined])

\* new Var({lb, ub, vtype, name})
NewVar(lb, ub, vtype, name) ==
    VarBody(Default(lb, Num(0)), Default(ub, Str("+infinity")),
            Default(vtype, Str("CONTINUOUS")), name)

\* `Var${n}`
DefaultName(n) == "Var" \o ToString(n)

\* A faulty choice of the default name: the counter's value, taken or not
CounterIndex(vs, from) == from

\* The first n >= from whose default name is free: the name addVar settles on.
RECURSIVE FreeIndex(_, _)
FreeIndex(vs, from) ==
    IF Has(vs, DefaultName(from)) THEN FreeIndex(vs, from + 1) ELSE from

\* A faulty registry: the new entry goes first
MapSetFirst(vs, key, v) ==
    <<[key |-> key, name |-> v.name, lb |-> v.lb, ub |-> v.ub, vtype |-> v.vtype,
       value |-> v.value]>> \o vs

\* Map.prototype.set: an existing key keeps its place, a new key goes last
MapSet(vs, key, v) ==
    LET entry == [key |-> key, name |-> v.name, lb |-> v.lb, ub |-> v.ub,
                  vtype |-> v.vtype, value |-> v.value]
    IN  IF Has(vs, key)
        THEN [i \in 1..Len(vs) |-> IF vs[i].key = key THEN entry ELSE vs[i]]
        ELSE Append(vs, entry)

----------------------------------------------------------------------------
(* Model.parseExpression                                                   *)

\* let combined = { 'constant': 0 }: the object's entries in creation order
CombinedInit == << [key |-> "constant", val |-> Num(0)] >>

HasKey(c, key) == \E i \in 1..Len(c) : c[i].key = key

\* combined[key]
Lookup(c, key) ==
    IF HasKey(c, key) THEN c[CHOOSE i \in 1..Len(c) : c[i].key = key].val ELSE Undefined

\* combined[key] = val
SetKey(c, key, val) ==
    IF HasKey(c, key)
    THEN [i \in 1..Len(c) |-> IF c[i].key = key THEN [key |-> key, val |-> val] ELSE c[i]]
    ELSE Append(c, [key |-> key, val |-> val])

\* if (cur) { cur[0] += coeff } else { combined[key] = fresh }, cur being
\* combined[key].  The module is strict code: assigning element 0 of a number
\* or of a string throws.
Merge(c, key, cur, coeff, fresh) ==
    IF Truthy(cur)
    THEN IF cur.k = "array"
         THEN Returned(SetKey(c, key, Arr([cur.a EXCEPT ![1] = JSAdd(cur.a[1], coeff)])))
         ELSE Threw
    ELSE Returned(SetKey(c, key, fresh))

Accumulate(c, key, coeff, fresh) == Merge(c, key, Lookup(c, key), coeff, fresh)

\* A faulty ordering: the two names are kept as written
AsWritten(v1, v2) == <<v1, v2>>

\* if (v1 > v2) { [v1, v2] = [v2, v1]; }
OrderedPair(v1, v2) == IF StrGT(v1, v2) THEN <<v2, v1>> ELSE <<v1, v2>>

\* The quadratic branch once the two names are in order: v is <<v1, v2>>
Quadratic(vs, c, coeff, v) ==
    Accumulate(c, v[1] \o "_***_" \o v[2], coeff, Arr(<<coeff, Get(vs, v[1]), Get(vs, v[2])>>))

\* One turn of the loop over the items of the expression
ParseItem(vs, c, item) ==
    CASE item.k = "array" ->
            IF Len(item.a) = 2
            THEN IF item.a[2].k # "Var" \/ ~IsNumber(item.a[1])
                 THEN Threw
                 ELSE Accumulate(c, item.a[2].name, item.a[1], Arr(<<item.a[1], item.a[2]>>))
            ELSE IF Len(item.a) = 3
            THEN IF item.a[2].k # "Var" \/ item.a[3].k # "Var" \/ ~IsNumber(item.a[1])
                 THEN Threw
                 ELSE Quadratic(vs, c, item.a[1], OrderedPair(item.a[2].name, item.a[3].name))
            ELSE Threw
      [] item.k = "Var" -> Accumulate(c, item.name, Num(1), Arr(<<Num(1), item>>))
      [] IsNumber(item) ->
            Returned(SetKey(c, "constant", JSAdd(Lookup(c, "constant"), item)))
      [] OTHER -> Threw

\* The loop from item i on; r is the outcome so far (combined, or the throw)
RECURSIVE ParseItems(_, _, _, _)
ParseItems(vs, r, expression, i) ==
    IF r.threw \/ i > Len(expression) THEN r
    ELSE ParseItems(vs, ParseItem(vs, r.value, expression[i]), expression, i + 1)

RECURSIVE SortByIndex(_)
SortByIndex(S) ==
    IF S = {} THEN <<>>
    ELSE LET m == CHOOSE e \in S : \A f \in S : ArrayIndex(e.key) <= ArrayIndex(f.key)
         IN  <<m>> \o SortByIndex(S \ {m})

\* for (let termName in combined): the keys that are array indices first, in
\* numeric order, then the other keys in the order of their creation
ForIn(c) ==
    SortByIndex({c[i] : i \in {j \in 1..Len(c) : ArrayIndex(c[j].key) >= 0}})
        \o SelectSeq(c, LAMBDA e : ArrayIndex(e.key) < 0)

\* delete combined[key]
Delete(c, key) == SelectSeq(c, LAMBDA e : e.key # key)

\* The closing loop: the listed entries whose coefficient is not 0
Pushed(entries) ==
    [i \in 1..Len(SelectSeq(entries, LAMBDA e : e.val.a[1] # Num(0))) |->
        SelectSeq(entries, LAMBDA e : e.val.a[1] # Num(0))[i].val]

\* What parseExpression returns once the loop over the items has ended
Parsed(r) ==
    IF r.threw THEN Threw
    ELSE Returned(<<Lookup(r.value, "constant")>> \o Pushed(ForIn(Delete(r.value, "constant"))))

parseExpression(vs, expression) ==
    Parsed(ParseItems(vs, Returned(CombinedInit), expression, 1))

----------------------------------------------------------------------------
(* Model.setObjective, Model.addConstr                                     *)

\* The assignment of setObjective, e being the outcome of parseExpression
ObjectiveOf(e, sense) ==
    IF e.threw THEN Threw ELSE Returned([expression |-> e.value, sense |-> sense])

setObjective(vs, expression, sense) ==
    IF UpperCase(sense) \notin {"MAXIMIZE", "MINIMIZE"} THEN Threw
    ELSE ObjectiveOf(parseExpression(vs, expression), sense)

\* The callback of rhs.map in addConstr
Negate(term) ==
    IF term.k = "array"
    THEN IF Len(term.a) = 2 THEN Arr(<<JSNeg(term.a[1]), term.a[2]>>)
         ELSE IF Len(term.a) = 3 THEN Arr(<<JSNeg(term.a[1]), term.a[2], term.a[3]>>)
         ELSE Undefined
    ELSE JSNeg(term)

NewConstr(lhs, comparison, rhs) ==
    [lhs |-> lhs, comparison |-> comparison, rhs |-> rhs,
     primal |-> Undefined, dual |-> Undefined]

\* The end of addConstr, f being the outcome of the last parseExpression
Folded(f, comparison) ==
    IF f.threw THEN Threw
    ELSE Returned(NewConstr([f.value EXCEPT ![1] = Num(0)], comparison, JSNeg(f.value[1])))

\* A faulty addConstr: the operator is not checked
CombinedUnchecked(vs, l, comparison, r) ==
    IF l.threw \/ r.threw THEN Threw
    ELSE Folded(parseExpression(vs, l.value \o [i \in 1..Len(r.value) |-> Negate(r.value[i])]),
                comparison)

\* addConstr from the operator check on, l and r being the parsed sides
Combined(vs, l, comparison, r) ==
    IF l.threw \/ r.threw THEN Threw
    ELSE IF comparison \notin {"<=", "=", ">="} THEN Threw
    ELSE Folded(parseExpression(vs, l.value \o [i \in 1..Len(r.value) |-> Negate(r.value[i])]),
                comparison)

\* rhs = typeof rhs === 'number' ? [rhs] : this.parseExpression(rhs)
ParsedRhs(vs, rhs) ==
    IF IsNumber(rhs) THEN Returned(<<rhs>>)
    ELSE IF rhs.k = "array" THEN parseExpression(vs, rhs.a)
    ELSE Threw

\* addConstr up to the push: the Constr it builds, or the throw.  lhs is the
\* list of items, rhs a number or an array of items.
addConstr(vs, lhs, comparison, rhs) ==
    Combined(vs, parseExpression(vs, lhs),
             IF comparison = "==" THEN "=" ELSE comparison, ParsedRhs(vs, rhs))

----------------------------------------------------------------------------
(* Bounds of the model and the arguments the callers pass                  *)

MaxVars == 2        \* variables registered in one Model
MaxVarCount == 2    \* value of the counter of default names before a call
MaxConstrs == 1     \* constraints of one Model
MaxTerms == 3       \* items of an expression passed to parseExpression
MaxSide == 2        \* items of one side of a constraint passed to addConstr

\* Names callers give explicitly
ExplicitNames == {"constant", "Var0"}

RegisteredNames(vs) == {vs[i].key : i \in 1..Len(vs)}

\* The items a caller can write: numbers, variables, terms, products
ItemsOver(consts, names, coeffs, qnames, qcoeffs) ==
    {Num(n) : n \in consts}
        \cup {Own(v) : v \in names}
        \cup {Arr(<<Num(c), Own(v)>>) : c \in coeffs, v \in names}
        \cup {Arr(<<Num(c), Own(v), Own(w)>>) : c \in qcoeffs, v \in qnames, w \in qnames}

\* All sequences over S of length at most n
SeqsUpTo(S, n) == UNION {[1..m -> S] : m \in 0..n}

----------------------------------------------------------------------------
(* The Model: constructor and the building operations                      *)

Init ==
    /\ variables = <<>>
    /\ constraints = <<>>
    /\ objective = [expression |-> <<Num(0)>>, sense |-> "MAXIMIZE"]
    /\ varCount = 0
    /\ solution = Null
    /\ status = Null
    /\ ObjVal = Null
    /\ pending = <<>>
    /\ call = [op |-> "new"]
    /\ ret = Returned(Undefined)

\* The end of addVar: v is the outcome of new Var, key the name settled on,
\* count the counter as the choice of the name left it
Registered(vs, count, key, v) ==
    IF v.threw
    THEN [threw |-> TRUE, value |-> Undefined, variables |-> vs, varCount |-> count]
    ELSE [threw |-> FALSE, value |-> Own(v.value.name),
          variables |-> MapSet(vs, key, v.value), varCount |-> count]

\* addVar when no name is given: n is the index the while loop stops at
AddDefault(vs, lb, ub, vtype, n) ==
    Registered(vs, n + 1, DefaultName(n), NewVar(lb, ub, vtype, DefaultName(n)))

\* addVar({lb, ub, vtype, name}) on the registry vs and the counter count:
\* what it returns or that it threw, the registry and the counter it leaves
addVar(vs, count, lb, ub, vtype, name) ==
    IF name.k \in {"null", "undefined"}
    THEN AddDefault(vs, lb, ub, vtype, FreeIndex(vs, count))
    ELSE IF Has(vs, name.s)
    THEN [threw |-> TRUE, value |-> Undefined, variables |-> vs, varCount |-> count]
    ELSE Registered(vs, count, name.s, NewVar(lb, ub, vtype, name.s))

\* model.addVar({lb, ub, vtype, name})
AddVar(lb, ub, vtype, name) ==
    /\ call' = [op |-> "addVar", lb |-> lb, ub |-> ub, vtype |-> vtype, name |-> name]
    /\ \E r \in {addVar(variables, varCount, lb, ub, vtype, name)} :
            /\ variables' = r.variables
            /\ varCount' = r.varCount
            /\ ret' = IF r.threw THEN Threw ELSE Returned(r.value)
    /\ UNCHANGED <<constraints, objective, solution, status, ObjVal, pending>>

\* The forEach of addVars from item i on; r is the registry so far, or the
\* registry at the throw
RECURSIVE AddVarsFrom(_, _, _, _, _, _)

\* One turn of the forEach: v is the outcome of new Var
AddVarsSet(r, v, varNames, i, lb, ub, vtype) ==
    IF v.threw THEN [threw |-> TRUE, value |-> r.value]
    ELSE AddVarsFrom([threw |-> FALSE, value |-> MapSet(r.value, varNames[i].s, v.value)],
                     varNames, i + 1, lb, ub, vtype)

AddVarsFrom(r, varNames, i, lb, ub, vtype) ==
    IF i > Len(varNames) THEN r
    ELSE IF varNames[i].k # "string" THEN [threw |-> TRUE, value |-> r.value]
    ELSE IF Has(r.value, varNames[i].s) THEN [threw |-> TRUE, value |-> r.value]
    ELSE AddVarsSet(r, NewVar(lb, ub, vtype, varNames[i].s), varNames, i, lb, ub, vtype)

\* model.addVars(varNames, {lb, ub, vtype})
AddVars(varNames, lb, ub, vtype) ==
    /\ call' = [op |-> "addVars", varNames |-> varNames, lb |-> lb, ub |-> ub,
                vtype |-> vtype]
    /\ \E r \in {AddVarsFrom([threw |-> FALSE, value |-> variables], varNames, 1,
                             lb, ub, vtype)} :
            /\ variables' = r.value
            /\ ret' = IF r.threw THEN Threw ELSE Returned(Undefined)
    /\ UNCHANGED <<constraints, objective, varCount, solution, status, ObjVal, pending>>

\* model.setObjective(expression, sense)
SetObjective(expression, sense) ==
    /\ call' = [op |-> "setObjective", expression |-> expression, sense |-> sense]
    /\ \E r \in {setObjective(variables, expression, sense)} :
            /\ objective' = IF r.threw THEN objective ELSE r.value
            /\ ret' = IF r.threw THEN Threw ELSE Returned(Undefined)
    /\ UNCHANGED <<variables, constraints, varCount, solution, status, ObjVal, pending>>

\* model.addConstr(lhs, comparison, rhs)
AddConstr(lhs, comparison, rhs) ==
    /\ call' = [op |-> "addConstr", lhs |-> lhs, comparison |-> comparison, rhs |-> rhs]
    /\ \E r \in {addConstr(variables, lhs, comparison, rhs)} :
            /\ constraints' = IF r.threw THEN constraints ELSE Append(constraints, r.value)
            /\ ret' = IF r.threw THEN Threw ELSE Returned(Undefined)
    /\ UNCHANGED <<variables, objective, varCount, solution, status, ObjVal, pending>>

----------------------------------------------------------------------------
(* Spec: a caller building a Model                                         *)

\* The objectives the building caller passes: a term, a term after a
\* constant, a product of two variables
ObjectiveExprs ==
    LET names == RegisteredNames(variables)
    IN  {<<Arr(<<Num(2), Own(v)>>)>> : v \in names}
            \cup {<<Num(3), Arr(<<Num(2), Own(v)>>)>> : v \in names}
            \cup {<<Arr(<<Num(2), Own(p[1]), Own(p[2])>>)>> :
                        p \in {q \in names \X names : q[1] # q[2]}}

\* The left sides the building caller passes: a term, a variable and its
\* opposite (they cancel)
LhsExprs ==
    LET names == RegisteredNames(variables)
    IN  {<<Arr(<<Num(2), Own(v)>>)>> : v \in names}
            \cup {<<Own(v), Arr(<<Num(-1), Own(v)>>)>> : v \in names}

\* The right sides: a number, a variable
RhsValues == {Num(5)} \cup {Arr(<<Own(v)>>) : v \in RegisteredNames(variables)}

CallAddVar ==
    /\ Len(variables) < MaxVars
    /\ varCount < MaxVarCount
    /\ \E vtype \in {Undefined, Str("bogus")},
          name \in {Undefined} \cup {Str(s) : s \in ExplicitNames} :
            AddVar(Undefined, Undefined, vtype, name)

CallAddVars ==
    /\ Len(variables) + 2 <= MaxVars
    /\ \E varNames \in [1..2 -> {Str(s) : s \in ExplicitNames}],
          vtype \in {Undefined, Str("bogus")} :
            AddVars(varNames, Undefined, Undefined, vtype)

CallSetObjective ==
    \E expression \in ObjectiveExprs, sense \in {"MINIMIZE", "bogus"} :
        SetObjective(expression, sense)

CallAddConstr ==
    /\ Len(constraints) < MaxConstrs
    /\ \E lhs \in LhsExprs, comparison \in {"<=", "==", "=>"}, rhs \in RhsValues :
            AddConstr(lhs, comparison, rhs)

Next ==
    \/ CallAddVar
    \/ CallAddVars
    \/ CallSetObjective
    \/ CallAddConstr

Spec == Init /\ [][Next]_vars

----------------------------------------------------------------------------
(* SpecExpr: one call of parseExpression on a Model with three variables   *)

\* The registry after addVars(names)
RegistryOf(names) ==
    AddVarsFrom([threw |-> FALSE, value |-> <<>>], [i \in 1..Len(names) |-> Str(names[i])],
                1, Undefined, Undefined, Undefined).value

ExprItems == ItemsOver({3}, {"x", "y", "constant"}, {2, -2}, {"x", "y"}, {2, -2})

\* A Model holding the variables `names`, about to run `c`
Calling(names, c) ==
    /\ variables = RegistryOf(names)
    /\ constraints = <<>>
    /\ objective = [expression |-> <<Num(0)>>, sense |-> "MAXIMIZE"]
    /\ varCount = 0
    /\ solution = Null
    /\ status = Null
    /\ ObjVal = Null
    /\ pending = <<>>
    /\ call = c
    /\ ret = Running

InitExpr ==
    \E expression \in SeqsUpTo(ExprItems, MaxTerms) :
        Calling(<<"x", "y", "constant">>, [op |-> "parseExpression", expression |-> expression])

\* model.parseExpression(expression)
ParseExpression ==
    /\ call.op = "parseExpression"
    /\ ret = Running
    /\ ret' = parseExpression(variables, call.expression)
    /\ UNCHANGED <<variables, constraints, objective, varCount, solution, status, ObjVal,
                   pending, call>>

SpecExpr == InitExpr /\ [][ParseExpression]_vars

----------------------------------------------------------------------------
(* SpecTerms: one call of parseExpression with items of every shape        *)

\* A Var instance that this Model's addVar did not make: one of another
\* Model, or one made by new Var
Foreign(name) == VarRef(name, FALSE)

\* Items of the accepted shapes over this Model's variables, items of other
\* shapes, and terms over Var instances of another Model
TermItems ==
    {Num(3), Own("x"), Arr(<<Num(2), Own("x")>>), Arr(<<Num(2), Own("x"), Own("y")>>)}
        \cup {Str("x"), Null, Undefined, Arr(<<Num(2)>>),
              Arr(<<Num(2), Own("x"), Own("y"), Own("x")>>),
              Arr(<<Str("2"), Own("x")>>), Arr(<<Num(2), Str("x")>>),
              Arr(<<Num(2), Own("x"), Str("y")>>)}
        \cup {Foreign("w"), Arr(<<Num(2), Foreign("w")>>), Arr(<<Num(2), Foreign("x")>>),
              Arr(<<Num(2), Own("x"), Foreign("w")>>), Arr(<<Num(2), Foreign("w"), Foreign("w")>>)}

MaxItems == 2   \* items of an expression of SpecTerms

InitTerms ==
    \E expression \in SeqsUpTo(TermItems, MaxItems) :
        Calling(<<"x", "y">>, [op |-> "parseExpression", expression |-> expression])

SpecTerms == InitTerms /\ [][ParseExpression]_vars

----------------------------------------------------------------------------
(* SpecOrder: one call of parseExpression on a Model whose variables have  *)
(* names that are digit strings                                            *)

OrderItems ==
    {Own("x"), Arr(<<Num(2), Own("10")>>), Arr(<<Num(3), Own("2")>>),
     Arr(<<Num(-3), Own("2")>>), Arr(<<Num(2), Own("x"), Own("2")>>), Num(3)}

InitOrder ==
    \E expression \in SeqsUpTo(OrderItems, MaxTerms) :
        Calling(<<"x", "10", "2">>, [op |-> "parseExpression", expression |-> expression])

SpecOrder == InitOrder /\ [][ParseExpression]_vars

----------------------------------------------------------------------------
(* SpecKeys: one call of parseExpression on a Model whose variables bear    *)
(* the names of the keys under which parseExpression accumulates            *)

KeyNames == <<"a", "b", "constant", "a_***_b">>

KeyItems == ItemsOver({3}, {"a", "constant", "a_***_b"}, {2}, {"a", "b"}, {3})

InitKeys ==
    \E expression \in SeqsUpTo(KeyItems, MaxTerms) :
        Calling(KeyNames, [op |-> "parseExpression", expression |-> expression])

SpecKeys == InitKeys /\ [][ParseExpression]_vars

----------------------------------------------------------------------------
(* SpecConstr: one call of addConstr on a Model with three variables       *)

ConstrItems ==
    {Num(3), Own("x"), Arr(<<Num(2), Own("x")>>), Arr(<<Num(-1), Own("x")>>),
     Arr(<<Num(4), Own("y")>>), Arr(<<Num(2), Own("constant")>>),
     Arr(<<Num(3), Own("x"), Own("y")>>), Arr(<<Num(3), Own("y"), Own("x")>>)}

InitConstr ==
    \E lhs \in SeqsUpTo(ConstrItems, MaxSide),
       comparison \in {"<=", "=", ">=", "==", "=>"},
       rhs \in {Num(5)} \cup {Arr(e) : e \in SeqsUpTo(ConstrItems, MaxSide)} :
        Calling(<<"x", "y", "constant">>,
                [op |-> "addConstr", lhs |-> lhs, comparison |-> comparison, rhs |-> rhs])

CallDrawnAddConstr ==
    /\ call.op = "addConstr"
    /\ ret = Running
    /\ AddConstr(call.lhs, call.comparison, call.rhs)

SpecConstr == InitConstr /\ [][CallDrawnAddConstr]_vars

----------------------------------------------------------------------------
(* SpecRegistry: a caller registering variables                            *)

MaxRegistered == 3   \* variables registered in one Model, value of the counter before a call

RegistryNames == {"x", "Var1"}

RegisterOne ==
    /\ Len(variables) < MaxRegistered
    /\ varCount < MaxRegistered
    /\ \E vtype \in {Undefined, Str("binary"), Str("bogus")},
          name \in {Undefined} \cup {Str(n) : n \in RegistryNames} :
            AddVar(Undefined, Undefined, vtype, name)

RegisterMany ==
    /\ Len(variables) + 2 <= MaxRegistered
    /\ \E varNames \in [1..2 -> {Str(n) : n \in RegistryNames}],
          ub \in {Undefined, Num(10), Str("-infinity")} :
            AddVars(varNames, Undefined, ub, Undefined)

SpecRegistry == Init /\ [][RegisterOne \/ RegisterMany]_vars

----------------------------------------------------------------------------
(* toLPFormat: the writer of the LP text                                   *)

\* `${v}`
Text(v) ==
    CASE v.k = "number" -> ToString(v.n)
      [] v.k = "string" -> v.s
      [] v.k = "NaN" -> "NaN"
      [] v.k = "null" -> "null"
      [] v.k = "undefined" -> "undefined"
      [] OTHER -> ObjectText.s

\* The callback of expression.map in expressionToString
TermText(term) ==
    IF term.k # "array" THEN Text(term)
    ELSE IF Len(term.a) = 2 THEN Text(term.a[1]) \o " " \o term.a[2].name
    ELSE IF Len(term.a) = 3
    THEN "[ " \o Text(IF term.a[1].k = "number" THEN Num(term.a[1].n * 2) ELSE NaN) \o " "
              \o term.a[2].name \o " * " \o term.a[3].name \o " ]/2"
    ELSE "undefined"

\* pieces.join(sep), from piece i on
RECURSIVE Join(_, _, _)
Join(pieces, sep, i) ==
    IF i > Len(pieces) THEN ""
    ELSE IF i = Len(pieces) THEN pieces[i]
    ELSE pieces[i] \o sep \o Join(pieces, sep, i + 1)

\* s.replace(/\+ -/g, "- ")
RECURSIVE Replaced(_)
Replaced(s) ==
    IF Len(s) < 3 THEN s
    ELSE IF SubSeq(s, 1, 3) = "+ -" THEN "- " \o Replaced(From(s, 4))
    ELSE Ch(s, 1) \o Replaced(From(s, 2))

expressionToString(expression) ==
    Replaced(Join([i \in 1..Len(expression) |-> TermText(expression[i])], " + ", 1))

\* The lines of the constraints from constraint i on
RECURSIVE ConstraintLines(_, _)
ConstraintLines(cs, i) ==
    IF i > Len(cs) THEN ""
    ELSE " c" \o ToString(i) \o ": " \o expressionToString(Tail(cs[i].lhs)) \o " "
            \o cs[i].comparison \o " " \o Text(cs[i].rhs) \o "\n" \o ConstraintLines(cs, i + 1)

\* The lines of the bounds from variable i on
RECURSIVE BoundLines(_, _)
BoundLines(vs, i) ==
    IF i > Len(vs) THEN ""
    ELSE (IF vs[i].lb # Num(0) \/ vs[i].ub # Str("+infinity")
          THEN " " \o (IF vs[i].lb = Str("-infinity") THEN "-inf" ELSE Text(vs[i].lb))
                   \o " <= " \o vs[i].key \o " <= "
                   \o (IF vs[i].ub = Str("+infinity") THEN "+inf" ELSE Text(vs[i].ub)) \o "\n"
          ELSE "")
            \o BoundLines(vs, i + 1)

\* A section of variable types: its header and the names of that type
TypeSection(header, names) ==
    IF names = <<>> THEN ""
    ELSE header \o "\n " \o Join([i \in 1..Len(names) |-> names[i].key], " ", 1) \o "\n"

\* toLPFormat(model)
toLPFormat(m) ==
    (IF UpperCase(m.objective.sense) = "MAXIMIZE" THEN "Maximize" ELSE "Minimize") \o "\n"
        \o "obj: "
        \o expressionToString(IF m.objective.expression[1] = Num(0)
                              THEN Tail(m.objective.expression)
                              ELSE m.objective.expression)
        \o "\n"
        \o (IF Len(m.constraints) > 0
            THEN "Subject To\n" \o ConstraintLines(m.constraints, 1)
            ELSE "")
        \o "Bounds\n" \o BoundLines(m.variables, 1)
        \o TypeSection("General", SelectSeq(m.variables, LAMBDA v : v.vtype = "INTEGER"))
        \o TypeSection("Binary", SelectSeq(m.variables, LAMBDA v : v.vtype = "BINARY"))
        \o "End\n"

----------------------------------------------------------------------------
(* Model.solve and the decoders of the three bridges                       *)

\* The constants of glpk.js: directions, types of bounds, and the
\* result-status codes that the engine's answers below carry
GLP_MIN == 1
GLP_MAX == 2
GLP_FR == 1
GLP_LO == 2
GLP_UP == 3
GLP_DB == 4
GLP_FX == 5
GLP_NOFEAS == 4
GLP_OPT == 5

\* An object as the list of its own properties, in the order of their creation
Prop(key, val) == [key |-> key, val |-> val]
Obj(entries) == [k |-> "object", entries |-> entries]
\* key in o
HasProp(o, key) == \E i \in 1..Len(o.entries) : o.entries[i].key = key
\* o[key]
Field(o, key) ==
    IF HasProp(o, key)
    THEN o.entries[CHOOSE i \in 1..Len(o.entries) : o.entries[i].key = key].val
    ELSE Undefined

\* The Model as one value: the fields that solve and the decoders read and write
ModelNow ==
    [variables |-> variables, constraints |-> constraints, objective |-> objective,
     varCount |-> varCount, solution |-> solution, status |-> status, ObjVal |-> ObjVal]

\* A faulty decoder: the Primal of a column is written into the lower bound
\* of the variable
readHighsIntoBounds(m, s) ==
    [m EXCEPT
        !.status = Field(s, "Status"),
        !.variables = [i \in 1..Len(m.variables) |->
            IF HasProp(Field(s, "Columns"), m.variables[i].key)
            THEN [m.variables[i] EXCEPT
                    !.lb = Field(Field(Field(s, "Columns"), m.variables[i].key), "Primal")]
            ELSE m.variables[i]]]

\* A faulty decoder: a variable that the answer does not name is given 0
readGLPKZeroing(m, r) ==
    [m EXCEPT
        !.status = Field(r, "status"),
        !.variables = [i \in 1..Len(m.variables) |->
            [m.variables[i] EXCEPT
                !.value = IF HasProp(Field(r, "vars"), m.variables[i].key)
                          THEN Field(Field(r, "vars"), m.variables[i].key)
                          ELSE Num(0)]]]

\* readHighsSolution(model, solution).  Each column named like a registered
\* variable gives that variable its Primal; row i gives constraint i its
\* Primal and Dual.
readHighsSolution(m, s) ==
    IF Field(s, "Status") \notin {Str("Optimal"), Str("Feasible")}
    THEN [m EXCEPT !.status = Field(s, "Status")]
    ELSE [m EXCEPT
            !.status = Field(s, "Status"),
            !.variables = [i \in 1..Len(m.variables) |->
                IF HasProp(Field(s, "Columns"), m.variables[i].key)
                THEN [m.variables[i] EXCEPT
                        !.value = Field(Field(Field(s, "Columns"), m.variables[i].key), "Primal")]
                ELSE m.variables[i]],
            !.constraints = [i \in 1..Len(m.constraints) |->
                IF i <= Len(Field(s, "Rows").a)
                THEN [m.constraints[i] EXCEPT !.primal = Field(Field(s, "Rows").a[i], "Primal"),
                                              !.dual = Field(Field(s, "Rows").a[i], "Dual")]
                ELSE m.constraints[i]]]

\* readGLPKSolution(model, solution), r being solution.result
readGLPKResult(m, r) ==
    [m EXCEPT
        !.status = Field(r, "status"),
        !.variables = [i \in 1..Len(m.variables) |->
            IF HasProp(Field(r, "vars"), m.variables[i].key)
            THEN [m.variables[i] EXCEPT !.value = Field(Field(r, "vars"), m.variables[i].key)]
            ELSE m.variables[i]],
        !.constraints = [i \in 1..Len(m.constraints) |->
            IF Truthy(Field(r, "dual")) /\ Field(Field(r, "dual"), "cons" \o ToString(i)) # Undefined
            THEN [m.constraints[i] EXCEPT !.dual = Field(Field(r, "dual"), "cons" \o ToString(i))]
            ELSE m.constraints[i]]]

readGLPKSolution(m, s) == readGLPKResult(m, Field(s, "result"))

\* readJSLPSolverSolution(model, solution)
readJSLPSolverSolution(m, s) ==
    [m EXCEPT
        !.status = Str(IF Truthy(Field(s, "feasible"))
                       THEN (IF Truthy(Field(s, "bounded")) THEN "Optimal" ELSE "Unbounded")
                       ELSE "Infeasible"),
        !.variables = [i \in 1..Len(m.variables) |->
            [m.variables[i] EXCEPT !.value = IF HasProp(s, m.variables[i].key)
                                             THEN Field(s, m.variables[i].key)
                                             ELSE Num(0)]],
        !.ObjVal = IF Truthy(Field(s, "result"))
                   THEN JSAdd(Field(s, "result"), m.objective.expression[1])
                   ELSE m.ObjVal]

\* A faulty reset: the variables keep their values
KeptValues(vs) == vs

\* this.variables.forEach(variable => variable.value = null)
ClearedValues(vs) == [i \in 1..Len(vs) |-> [vs[i] EXCEPT !.value = Null]]

\* The opening of solve: "clear previous solution"
Cleared(m) ==
    [m EXCEPT !.solution = Null,
              !.variables = ClearedValues(m.variables),
              !.constraints = [i \in 1..Len(m.constraints) |->
                                    [m.constraints[i] EXCEPT !.primal = Null, !.dual = Null]],
              !.ObjVal = Null]

\* An engine handle is the set of the names of its own properties.  The branch
\* of solve that the handle selects:
Bridge(solver) ==
    IF {"branchAndCut", "lastSolvedModel"} \subseteq solver THEN "jsLPSolver"
    ELSE IF "GLP_OPT" \in solver THEN "glpk"
    ELSE IF "_Highs_run" \in solver THEN "highs"
    ELSE "none"

Bridges == {"jsLPSolver", "glpk", "highs"}

isQuadraticExpression(expression) ==
    \E i \in 1..Len(expression) : expression[i].k = "array" /\ Len(expression[i].a) = 3

\* model.isQuadratic()
isQuadratic(m) ==
    \/ isQuadraticExpression(m.objective.expression)
    \/ \E i \in 1..Len(m.constraints) : isQuadraticExpression(m.constraints[i].lhs)

\* o[key] = val
SetProp(o, key, val) == Obj(SetKey(o.entries, key, val))
\* o[outer][key] = val
SetIn(o, outer, key, val) == SetProp(o, outer, SetProp(Field(o, outer), key, val))
\* o[outer][inner][key] = val
SetWithin(o, outer, inner, key, val) == SetProp(o, outer, SetIn(Field(o, outer), inner, key, val))

\* toGLPKFormat(model) of the bridge.
\* expression.slice(1).map(term => ({ name: term[1].name, coef: term[0] }))
GLPKVars(expression) ==
    Arr([i \in 1..(Len(expression) - 1) |->
            Obj(<<Prop("name", Str(expression[i + 1].a[2].name)),
                  Prop("coef", expression[i + 1].a[1])>>)])

\* The row of the constraint at index - 1
GLPKRow(constr, index) ==
    Obj(<<Prop("name", Str("cons" \o ToString(index))),
          Prop("vars", GLPKVars(constr.lhs)),
          Prop("bnds",
               Obj(<<Prop("type", Num(IF constr.comparison = "<=" THEN GLP_UP
                                      ELSE IF constr.comparison = ">=" THEN GLP_LO
                                      ELSE GLP_DB)),
                     Prop("ub", IF constr.comparison = "<=" THEN constr.rhs ELSE Num(0)),
                     Prop("lb", IF constr.comparison = ">=" THEN constr.rhs ELSE Num(0))>>))>>)

\* The bound record of one variable
GLPKBound(varObj) ==
    Obj(<<Prop("name", Str(varObj.name)),
          Prop("type", Num(IF varObj.lb = Str("-infinity")
                           THEN (IF varObj.ub = Str("+infinity") THEN GLP_FR ELSE GLP_UP)
                           ELSE IF varObj.ub = Str("+infinity") THEN GLP_LO ELSE GLP_DB)),
          Prop("ub", IF varObj.ub = Str("+infinity") THEN Num(0) ELSE varObj.ub),
          Prop("lb", IF varObj.lb = Str("-infinity") THEN Num(0) ELSE varObj.lb)>>)

\* The names of the variables of one kind, in the order of the registry
NamesOfKind(vs, vtype) ==
    Arr([i \in 1..Len(SelectSeq(vs, LAMBDA v : v.vtype = vtype)) |->
            Str(SelectSeq(vs, LAMBDA v : v.vtype = vtype)[i].name)])

glpkModel(m) ==
    Obj(<<Prop("name", Str("LP")),
          Prop("objective",
               Obj(<<Prop("direction", Num(IF UpperCase(m.objective.sense) = "MAXIMIZE"
                                           THEN GLP_MAX ELSE GLP_MIN)),
                     Prop("name", Str("obj")),
                     Prop("vars", GLPKVars(m.objective.expression))>>)),
          Prop("subjectTo", Arr([i \in 1..Len(m.constraints) |-> GLPKRow(m.constraints[i], i)])),
          Prop("bounds", Arr([i \in 1..Len(m.variables) |-> GLPKBound(m.variables[i])])),
          Prop("binaries", NamesOfKind(m.variables, "BINARY")),
          Prop("generals", NamesOfKind(m.variables, "INTEGER"))>>)

\* model.toGLPKFormat(): the request, or the throw
toGLPKFormat(m) == IF isQuadratic(m) THEN Threw ELSE Returned(glpkModel(m))

\* toJSLPSolverFormat(model, options).  The turn of model.variables.forEach
\* for one variable, statement by statement; j is jsLPModel so far.
JSEntry(j, v) == SetIn(j, "variables", v.key, Obj(<<>>))

JSUnrestricted(j, v) ==
    IF v.lb = Str("-infinity") \/ (v.lb.k = "number" /\ v.lb.n < 0)
    THEN SetIn(j, "unrestricted", v.key, Num(1))
    ELSE j

JSLower(j, v) ==
    IF v.lb # Num(0) /\ v.lb # Str("-infinity")
    THEN SetIn(j, "constraints", v.key \o "_lb", Obj(<<Prop("min", v.lb)>>))
    ELSE j

JSUpper(j, v) ==
    IF v.ub # Str("+infinity")
    THEN SetIn(j, "constraints", v.key \o "_ub", Obj(<<Prop("max", v.ub)>>))
    ELSE j

JSKind(j, v) ==
    IF v.vtype = "BINARY" THEN SetIn(j, "binaries", v.key, Num(1))
    ELSE IF v.vtype = "INTEGER" THEN SetIn(j, "ints", v.key, Num(1))
    ELSE j

\* model.variables.forEach(...) from variable i on
RECURSIVE JSVariables(_, _, _)
JSVariables(j, vs, i) ==
    IF i > Len(vs) THEN j
    ELSE JSVariables(JSKind(JSUpper(JSLower(JSUnrestricted(JSEntry(j, vs[i]), vs[i]), vs[i]),
                                    vs[i]), vs[i]),
                     vs, i + 1)

\* jsLPModel.variables[term[1].name][key]: the entry of the variable of the
\* term has to exist for the statement not to throw
HasEntry(j, term) ==
    /\ term.a[2].k = "Var"
    /\ HasProp(Field(j, "variables"), term.a[2].name)

\* model.objective.expression.forEach(...) from term i on; r is jsLPModel so
\* far, or the throw
RECURSIVE JSObjective(_, _, _)
JSObjective(r, expression, i) ==
    IF r.threw \/ i > Len(expression) THEN r
    ELSE JSObjective(
            IF expression[i].k # "array" THEN r
            ELSE IF ~HasEntry(r.value, expression[i]) THEN Threw
            ELSE Returned(SetWithin(r.value, "variables", expression[i].a[2].name,
                                    "objective", expression[i].a[1])),
            expression, i + 1)

\* jsLPModel.variables[name][constrName], 0 when the entry has none yet
JSCoefficient(j, name, constrName) ==
    IF HasProp(Field(Field(j, "variables"), name), constrName)
    THEN Field(Field(Field(j, "variables"), name), constrName)
    ELSE Num(0)

\* constr.lhs.forEach(...) from term i on
RECURSIVE JSRowTerms(_, _, _, _)
JSRowTerms(r, constrName, lhs, i) ==
    IF r.threw \/ i > Len(lhs) THEN r
    ELSE JSRowTerms(
            IF lhs[i].k # "array" THEN r
            ELSE IF ~HasEntry(r.value, lhs[i]) THEN Threw
            ELSE Returned(SetWithin(r.value, "variables", lhs[i].a[2].name, constrName,
                                    JSAdd(JSCoefficient(r.value, lhs[i].a[2].name, constrName),
                                          lhs[i].a[1]))),
            constrName, lhs, i + 1)

\* jsLPModel.constraints[constrName] = {} and the side that the comparison sets
JSRow(j, constr, constrName) ==
    SetIn(j, "constraints", constrName,
          Obj(IF constr.comparison = "<=" THEN <<Prop("max", constr.rhs)>>
              ELSE IF constr.comparison = ">=" THEN <<Prop("min", constr.rhs)>>
              ELSE IF constr.comparison = "=" THEN <<Prop("equal", constr.rhs)>>
              ELSE <<>>))

\* model.constraints.forEach(...) from the constraint at index i - 1 on
RECURSIVE JSConstraints(_, _, _)
JSConstraints(r, cs, i) ==
    IF r.threw \/ i > Len(cs) THEN r
    ELSE JSConstraints(
            JSRowTerms(Returned(JSRow(r.value, cs[i], "c" \o ToString(i - 1))),
                       "c" \o ToString(i - 1), cs[i].lhs, 1),
            cs, i + 1)

\* The object jsLPModel starts as
jsLPModel(m, options) ==
    Obj(<<Prop("optimize", Str("objective")),
          Prop("opType", Str(SubSeq(LowerCase(m.objective.sense), 1,
                                    IF Len(m.objective.sense) < 3 THEN Len(m.objective.sense)
                                                                  ELSE 3))),
          Prop("constraints", Obj(<<>>)),
          Prop("variables", Obj(<<>>)),
          Prop("ints", Obj(<<>>)),
          Prop("binaries", Obj(<<>>)),
          Prop("unrestricted", Obj(<<>>)),
          Prop("options", options)>>)

\* model.toJSLPSolverFormat(options): the request, or the throw
toJSLPSolverFormat(m, options) ==
    JSConstraints(JSObjective(Returned(JSVariables(jsLPModel(m, options), m.variables, 1)),
                              m.objective.expression, 1),
                  m.constraints, 1)

\* What solve hands to the engine of the bridge, or the throw of the encoder
Request(m, bridge) ==
    CASE bridge = "jsLPSolver" -> toJSLPSolverFormat(m, Obj(<<>>))
      [] bridge = "glpk" -> toGLPKFormat(m)
      [] bridge = "highs" -> Returned(Str(toLPFormat(m)))
      [] OTHER -> Returned(Undefined)

\* A promise that will be fulfilled with value r: an object with no property
\* of its own
Promise(r) == [k |-> "promise", entries |-> <<>>, settles |-> r]

\* await v
Awaited(v) == IF v.k = "promise" THEN v.settles ELSE v

\* model.readHighsSolution(solution), model.readGLPKSolution(solution),
\* model.readJSLPSolverSolution(solution): the decoder of the bridge
readSolution(m, bridge, s) ==
    CASE bridge = "jsLPSolver" -> readJSLPSolverSolution(m, s)
      [] bridge = "glpk" -> readGLPKSolution(m, s)
      [] bridge = "highs" -> readHighsSolution(m, s)

\* this.solution = <the engine's answer>; this.read...Solution(this.solution)
Decoded(m, bridge, response) ==
    CASE bridge = "jsLPSolver" -> readJSLPSolverSolution([m EXCEPT !.solution = response], response)
      [] bridge = "glpk" -> readGLPKSolution([m EXCEPT !.solution = response], response)
      [] bridge = "highs" -> readHighsSolution([m EXCEPT !.solution = response], response)

\* The Model takes the fields of m
Store(m) ==
    /\ variables' = m.variables
    /\ constraints' = m.constraints
    /\ solution' = m.solution
    /\ status' = m.status
    /\ ObjVal' = m.ObjVal

\* What the call record keeps of the call before
Prior ==
    IF call.op = "solve"
    THEN [solver |-> call.solver, fulfilled |-> ret = Returned(Undefined)]
    ELSE [solver |-> {}, fulfilled |-> FALSE]

\* model.solve(solver), up to its return or to its await.  The engine will
\* answer with response, or raise if raises.  The jsLPSolver and HiGHS
\* engines answer at once; the promise of glpk.js is awaited, the call is
\* suspended and Resume continues it.
Solve(solver, response, raises) ==
    \E m \in {Cleared(ModelNow)} :
    \E request \in {Request(m, Bridge(solver))} :
        /\ call' = [op |-> "solve", solver |-> solver, response |-> response,
                    raises |-> raises, prior |-> Prior, request |-> request]
        /\ CASE Bridge(solver) = "none" ->
                    Store(m) /\ ret' = Returned(Undefined) /\ pending' = pending
              [] Bridge(solver) \in Bridges /\ request.threw ->
                    Store(m) /\ ret' = Threw /\ pending' = pending
              [] Bridge(solver) = "glpk" /\ ~request.threw ->
                    /\ Store(m)
                    /\ ret' = Running
                    /\ pending' = Append(pending, [response |-> response, raises |-> raises])
              [] Bridge(solver) \in {"jsLPSolver", "highs"} /\ ~request.threw /\ raises ->
                    Store(m) /\ ret' = Threw /\ pending' = pending
              [] Bridge(solver) \in {"jsLPSolver", "highs"} /\ ~request.threw /\ ~raises ->
                    /\ Store(Decoded(m, Bridge(solver), response))
                    /\ ret' = Returned(Undefined)
                    /\ pending' = pending
        /\ UNCHANGED <<objective, varCount>>

\* The continuation of the oldest suspended solve: the promise of glpk.js has
\* settled
Resume ==
    /\ pending # <<>>
    /\ IF Head(pending).raises
       THEN /\ ret' = Threw
            /\ UNCHANGED <<variables, constraints, solution, status, ObjVal>>
       ELSE /\ Store(Decoded(ModelNow, "glpk", Awaited(Head(pending).response)))
            /\ ret' = Returned(Undefined)
    /\ pending' = Tail(pending)
    /\ UNCHANGED <<objective, varCount, call>>

----------------------------------------------------------------------------
(* SpecSolve: a caller solving one Model again and again, each call awaited *)

\* A Model built by a caller
Built(vs, count, obj, cs) ==
    /\ variables = vs
    /\ constraints = cs
    /\ objective = obj
    /\ varCount = count
    /\ solution = Null
    /\ status = Null
    /\ ObjVal = Null
    /\ pending = <<>>
    /\ call = [op |-> "build"]
    /\ ret = Returned(Undefined)

\* x + 2 to maximize, or x * x to minimize; x <= 3, and x >= 4 or not
InitSolve ==
    \E vs \in {RegistryOf(<<"x">>)} :
        \E obj \in {setObjective(vs, <<Own("x"), Num(2)>>, "MAXIMIZE").value,
                    setObjective(vs, <<Arr(<<Num(1), Own("x"), Own("x")>>)>>, "MINIMIZE").value},
           cs \in {<<addConstr(vs, <<Own("x")>>, "<=", Num(3)).value>>,
                   <<addConstr(vs, <<Own("x")>>, "<=", Num(3)).value,
                     addConstr(vs, <<Own("x")>>, ">=", Num(4)).value>>} :
            Built(vs, 0, obj, cs)

\* The handles of the three engines, and an object that is none of them
Handles ==
    {{"branchAndCut", "lastSolvedModel", "Solve"}, {"GLP_OPT", "solve"},
     {"_Highs_run", "solve"}, {"solve"}}

\* The objective values the engines report
Objectives == {3, 0}

\* The answers of the engines: optimal or infeasible, the jsLPSolver one
\* leaving out a variable that is 0
Responses(bridge) ==
    CASE bridge = "highs" ->
            {Obj(<<Prop("Status", Str(s)), Prop("ObjectiveValue", Num(z)),
                   Prop("Columns", Obj(<<Prop("x", Obj(<<Prop("Primal", Num(z))>>))>>)),
                   Prop("Rows", Arr(<<Obj(<<Prop("Primal", Num(z)), Prop("Dual", Num(1))>>)>>))>>) :
                s \in {"Optimal", "Infeasible"}, z \in Objectives}
      [] bridge = "glpk" ->
            {Obj(<<Prop("result", Obj(<<Prop("status", Num(s)), Prop("z", Num(z)),
                                        Prop("vars", Obj(<<Prop("x", Num(z))>>)),
                                        Prop("dual", d)>>))>>) :
                s \in {GLP_OPT, GLP_NOFEAS}, z \in Objectives,
                d \in {Undefined, Obj(<<Prop("cons1", Num(1))>>)}}
      [] bridge = "jsLPSolver" ->
            {Obj(<<Prop("feasible", Bool(f)), Prop("result", Num(z)), Prop("bounded", Bool(b))>>
                    \o (IF z = 0 THEN <<>> ELSE <<Prop("x", Num(z))>>)) :
                f \in BOOLEAN, b \in BOOLEAN, z \in Objectives}
      [] OTHER -> {Undefined}

CallSolve ==
    /\ pending = <<>>
    /\ \E solver \in Handles :
        \E response \in Responses(Bridge(solver)),
           raises \in (IF Bridge(solver) = "none" THEN {FALSE} ELSE BOOLEAN) :
            Solve(solver, response, raises)

SpecSolve == InitSolve /\ [][CallSolve \/ Resume]_vars

----------------------------------------------------------------------------
(* SpecBridge: a caller encodes a Model, decodes answers into it and      *)
(* solves it, each call awaited; the answers name variables and rows that  *)
(* the Model has not                                                       *)

\* model.toLPFormat()
ToLPFormat ==
    /\ call' = [op |-> "toLPFormat"]
    /\ ret' = Returned(Str(toLPFormat(ModelNow)))
    /\ UNCHANGED <<variables, constraints, objective, varCount, solution, status, ObjVal,
                   pending>>

\* model.toGLPKFormat()
ToGLPKFormat ==
    /\ call' = [op |-> "toGLPKFormat"]
    /\ ret' = toGLPKFormat(ModelNow)
    /\ UNCHANGED <<variables, constraints, objective, varCount, solution, status, ObjVal,
                   pending>>

\* model.toJSLPSolverFormat(options)
ToJSLPSolverFormat(options) ==
    /\ call' = [op |-> "toJSLPSolverFormat", options |-> options]
    /\ ret' = toJSLPSolverFormat(ModelNow, options)
    /\ UNCHANGED <<variables, constraints, objective, varCount, solution, status, ObjVal,
                   pending>>

\* model.readHighsSolution(solution), model.readGLPKSolution(solution),
\* model.readJSLPSolverSolution(solution)
ReadSolution(bridge, s) ==
    /\ call' = [op |-> "readSolution", bridge |-> bridge, solution |-> s]
    /\ Store(readSolution(ModelNow, bridge, s))
    /\ ret' = Returned(Undefined)
    /\ UNCHANGED <<objective, varCount, pending>>

\* x and y; x + 2 to maximize or x * y to minimize; x <= 3
InitBridge ==
    \E vs \in {RegistryOf(<<"x", "y">>)} :
        \E obj \in {setObjective(vs, <<Own("x"), Num(2)>>, "MAXIMIZE").value,
                    setObjective(vs, <<Arr(<<Num(1), Own("x"), Own("y")>>)>>, "MINIMIZE").value} :
            Built(vs, 0, obj, <<addConstr(vs, <<Own("x")>>, "<=", Num(3)).value>>)

\* The answers of the engines: each names x, not y, and names w and a second
\* row, which the Model has not
Answers(bridge) ==
    CASE bridge = "highs" ->
            {Obj(<<Prop("Status", Str(s)),
                   Prop("Columns", Obj(<<Prop("x", Obj(<<Prop("Primal", Num(1))>>)),
                                         Prop("w", Obj(<<Prop("Primal", Num(7))>>))>>)),
                   Prop("Rows", Arr(<<Obj(<<Prop("Primal", Num(1)), Prop("Dual", Num(2))>>),
                                      Obj(<<Prop("Primal", Num(7)), Prop("Dual", Num(8))>>)>>))>>) :
                s \in {"Optimal", "Infeasible"}}
      [] bridge = "glpk" ->
            {Obj(<<Prop("result", Obj(<<Prop("status", Num(GLP_OPT)),
                                        Prop("vars", Obj(<<Prop("x", Num(1)), Prop("w", Num(7))>>)),
                                        Prop("dual", d)>>))>>) :
                d \in {Undefined, Obj(<<Prop("cons1", Num(2)), Prop("cons9", Num(8))>>)}}
      [] bridge = "jsLPSolver" ->
            {Obj(<<Prop("feasible", Bool(f)), Prop("result", Num(3)), Prop("bounded", Bool(TRUE)),
                   Prop("x", Num(1)), Prop("w", Num(7))>>) : f \in BOOLEAN}
      [] OTHER -> {Undefined}

CallEncode ==
    /\ pending = <<>>
    /\ \/ ToLPFormat
       \/ ToGLPKFormat
       \/ ToJSLPSolverFormat(Undefined)

CallReadSolution ==
    /\ pending = <<>>
    /\ \E bridge \in Bridges : \E s \in Answers(bridge) : ReadSolution(bridge, s)

\* The engine answers at once, or with a promise of its answer
CallSolveAnswered ==
    /\ pending = <<>>
    /\ \E solver \in Handles :
        \E response \in Answers(Bridge(solver)) :
            \/ Solve(solver, response, FALSE)
            \/ Bridge(solver) \in Bridges /\ Solve(solver, Promise(response), FALSE)

SpecBridge == InitBridge /\ [][CallEncode \/ CallReadSolution \/ CallSolveAnswered \/ Resume]_vars

----------------------------------------------------------------------------
(* SpecJSLP: a caller solves a Model through jsLPSolver and decodes        *)
(* jsLPSolver answers into it; a variable may bear the name of a field of  *)
(* the answer                                                              *)

\* x and a second variable; x + 2 to maximize; x <= 3
InitJSLP ==
    \E second \in {"y", "result", "bounded"} :
        \E vs \in {RegistryOf(<<"x", second>>)} :
            Built(vs, 0, setObjective(vs, <<Own("x"), Num(2)>>, "MAXIMIZE").value,
                  <<addConstr(vs, <<Own("x")>>, "<=", Num(3)).value>>)

\* The answers of jsLPSolver: feasible, result, bounded, then the variables
\* that are not 0.  The second variable of the Model is 0 in every answer.
JSAnswers ==
    {Obj(<<Prop("feasible", Bool(f)), Prop("result", Num(z)), Prop("bounded", Bool(b))>>
            \o (IF x = 0 THEN <<>> ELSE <<Prop("x", Num(x))>>)) :
        f \in BOOLEAN, b \in BOOLEAN, z \in Objectives, x \in {0, 1, 3}}

CallJSSolve ==
    \E response \in JSAnswers :
        Solve({"branchAndCut", "lastSolvedModel", "Solve"}, response, FALSE)

CallJSRead == \E s \in JSAnswers : ReadSolution("jsLPSolver", s)

SpecJSLP == InitJSLP /\ [][CallJSSolve \/ CallJSRead]_vars

----------------------------------------------------------------------------
(* SpecGLPK, SpecJSBounds: Models with variables of every kind of bounds   *)
(* and constraints of every sense are encoded for glpk.js, for jsLPSolver  *)

\* The bounds a caller gives a variable; undefined leaves the default
LowerBounds == {Undefined, Num(-1), Num(5), Str("-infinity")}
UpperBounds == {Undefined, Num(5), Num(10)}

\* The constraints a caller adds: a left side, an operator, a right side
GLPKConstraints ==
    {<<<<Own("x")>>, "<=", Num(3)>>, <<<<Own("x")>>, ">=", Num(4)>>,
     <<<<Own("x")>>, "=", Num(3)>>, <<<<Own("x"), Own("y")>>, "==", Num(0)>>}

\* The constraints that addConstr builds of the calls cs on the registry vs
RECURSIVE ConstrsOf(_, _)
ConstrsOf(vs, cs) ==
    IF cs = <<>> THEN <<>>
    ELSE <<addConstr(vs, cs[1][1], cs[1][2], cs[1][3]).value>> \o ConstrsOf(vs, Tail(cs))

\* x with the bounds lb and ub, then y with the upper bound ub2
BoundedRegistry(lb, ub, ub2) ==
    addVar(addVar(<<>>, 0, lb, ub, Undefined, Str("x")).variables, 0,
           Undefined, ub2, Str("BINARY"), Str("y")).variables

InitEncode ==
    \E lb \in LowerBounds, ub \in UpperBounds, ub2 \in {Undefined, Num(1)},
       cs \in SeqsUpTo(GLPKConstraints, MaxConstrs) :
        \E vs \in {BoundedRegistry(lb, ub, ub2)} :
            Built(vs, 0, setObjective(vs, <<Own("x"), Num(2)>>, "MAXIMIZE").value,
                  ConstrsOf(vs, cs))

CallToGLPKFormat == call.op = "build" /\ ToGLPKFormat

SpecGLPK == InitEncode /\ [][CallToGLPKFormat]_vars

\* The same Models are encoded for jsLPSolver
CallToJSLPSolverFormat == call.op = "build" /\ ToJSLPSolverFormat(Obj(<<>>))

SpecJSBounds == InitEncode /\ [][CallToJSLPSolverFormat]_vars

----------------------------------------------------------------------------
(* SpecOverlap: a caller starts a solve while an earlier solve through     *)
(* glpk.js is still waiting for its engine                                 *)

MaxPending == 2   \* solves waiting for glpk.js at one time

\* x and y; x + 2 to maximize; x <= 3
InitOverlap ==
    \E vs \in {RegistryOf(<<"x", "y">>)} :
        Built(vs, 0, setObjective(vs, <<Own("x"), Num(2)>>, "MAXIMIZE").value,
              <<addConstr(vs, <<Own("x")>>, "<=", Num(3)).value>>)

\* Two answers of each engine, x = y = z with objective value z; the glpk.js
\* answers with duals or without, the jsLPSolver answers leaving out y
OverlapAnswers(bridge) ==
    CASE bridge = "highs" ->
            {Obj(<<Prop("Status", Str("Optimal")), Prop("ObjectiveValue", Num(z)),
                   Prop("Columns", Obj(<<Prop("x", Obj(<<Prop("Primal", Num(z))>>)),
                                         Prop("y", Obj(<<Prop("Primal", Num(z))>>))>>)),
                   Prop("Rows", Arr(<<Obj(<<Prop("Primal", Num(z)), Prop("Dual", Num(z))>>)>>))>>) :
                z \in {1, 2}}
      [] bridge = "glpk" ->
            {Obj(<<Prop("result", Obj(<<Prop("status", Num(GLP_OPT)), Prop("z", Num(z)),
                                        Prop("vars", Obj(<<Prop("x", Num(z)), Prop("y", Num(z))>>)),
                                        Prop("dual", d)>>))>>) :
                z \in {1, 2}, d \in {Undefined, Obj(<<Prop("cons1", Num(3))>>)}}
      [] bridge = "jsLPSolver" ->
            {Obj(<<Prop("feasible", Bool(TRUE)), Prop("result", Num(z)),
                   Prop("bounded", Bool(TRUE)), Prop("x", Num(z))>>) : z \in {1, 2}}
      [] OTHER -> {Undefined}

\* model.solve(solver), called whether or not an earlier solve is waiting
CallSolveDuring ==
    /\ Len(pending) < MaxPending
    /\ \E solver \in {h \in Handles : Bridge(h) \in Bridges} :
        \E response \in OverlapAnswers(Bridge(solver)) : Solve(solver, response, FALSE)

SpecOverlap == InitOverlap /\ [][CallSolveDuring \/ Resume]_vars

----------------------------------------------------------------------------
(* The grammar of the LP text.  A rule applied to the text t at position p *)
(* gives whether it matched, the position after the match and the value of *)
(* its action; a choice takes its first alternative that matches.          *)

Matched(p, v) == [ok |-> TRUE, pos |-> p, val |-> v]
Failed == [ok |-> FALSE, pos |-> 0, val |-> Null]

\* r followed by what F makes of it
Then(r, F(_)) == IF r.ok THEN F(r) ELSE Failed
\* r / s
Or(r, s) == IF r.ok THEN r ELSE s

\* "lit" ("lit"i if ci): the value is the matched text
Lit(t, p, lit, ci) ==
    IF p + Len(lit) - 1 <= Len(t)
            /\ (IF ci THEN LowerCase(SubSeq(t, p, p + Len(lit) - 1)) = LowerCase(lit)
                      ELSE SubSeq(t, p, p + Len(lit) - 1) = lit)
    THEN Matched(p + Len(lit), SubSeq(t, p, p + Len(lit) - 1))
    ELSE Failed

\* "w1"i / "w2"i / ... from word i on
RECURSIVE Keyword(_, _, _, _)
Keyword(t, p, words, i) ==
    IF i > Len(words) THEN Failed
    ELSE Or(Lit(t, p, words[i], TRUE), Keyword(t, p, words, i + 1))

\* [cls]*: the position after the characters of the class
RECURSIVE Run(_, _, _)
Run(t, p, cls) == IF Among(Ch(t, p), cls) THEN Run(t, p + 1, cls) ELSE p

\* [^\n]* "\n": the position after the end of the line, 0 if the line does not end
RECURSIVE LineEnd(_, _)
LineEnd(t, p) ==
    IF p > Len(t) THEN 0 ELSE IF Ch(t, p) = "\n" THEN p + 1 ELSE LineEnd(t, p + 1)

\* _: the position after the white space and the comments
RECURSIVE Blank(_, _)
Blank(t, p) ==
    IF Ch(t, Run(t, p, " \t\n\r")) = "\\" /\ LineEnd(t, Run(t, p, " \t\n\r") + 1) > 0
    THEN Blank(t, LineEnd(t, Run(t, p, " \t\n\r") + 1))
    ELSE Run(t, p, " \t\n\r")

\* [+-]? at p: the position after the sign, if there is one
AfterSign(t, p) == IF Ch(t, p) \in {"+", "-"} THEN p + 1 ELSE p

\* The number written by a sign, whole digits and what follows them: a whole
\* number is a number of the Model, another one keeps what follows as written
Float(sign, whole, rest) ==
    IF rest = "" THEN Num(sign * IntOf(whole))
    ELSE [k |-> "number", n |-> sign * IntOf(whole), rest |-> rest]

\* parseFloat(s) for s a number of the grammar, signed or not
parseFloat(s) ==
    Float(IF Ch(s, 1) = "-" THEN -1 ELSE 1,
          SubSeq(s, AfterSign(s, 1), Run(s, AfterSign(s, 1), Digits) - 1),
          From(s, Run(s, AfterSign(s, 1), Digits)))

\* ("." [0-9]+)? at p
Fraction(t, p) ==
    IF Ch(t, p) = "." /\ Run(t, p + 1, Digits) > p + 1 THEN Run(t, p + 1, Digits) ELSE p

\* ("e"i [+-]? [0-9]+)? at p
Exponent(t, p) ==
    IF LowerCase(Ch(t, p)) = "e" /\ Run(t, AfterSign(t, p + 1), Digits) > AfterSign(t, p + 1)
    THEN Run(t, AfterSign(t, p + 1), Digits)
    ELSE p

Number(t, p) ==
    IF Run(t, p, Digits) = p THEN Failed
    ELSE Matched(Exponent(t, Fraction(t, Run(t, p, Digits))),
                 parseFloat(SubSeq(t, p, Exponent(t, Fraction(t, Run(t, p, Digits))) - 1)))

SignedNumber(t, p) ==
    Then(Number(t, AfterSign(t, p)),
         LAMBDA number : Matched(number.pos, parseFloat(SubSeq(t, p, number.pos - 1))))

BinaryHeader(t, p) == Keyword(t, p, <<"Binary", "Binaries", "Bin">>, 1)
GeneralHeader(t, p) == Keyword(t, p, <<"Generals", "General", "Gen">>, 1)

\* The characters a variable name starts with (but for the backquote)
NameStart == LowerLetters \o UpperLetters \o "!\"#$%&'()*+,./;?@_'{|}~"

VariableName(t, p) ==
    IF BinaryHeader(t, p).ok \/ GeneralHeader(t, p).ok \/ Lit(t, p, "End", TRUE).ok
            \/ ~Among(Ch(t, p), NameStart)
    THEN Failed
    ELSE Matched(Run(t, p + 1, NameStart \o Digits),
                 SubSeq(t, p, Run(t, p + 1, NameStart \o Digits) - 1))

Term(t, p) ==
    Or(Then(Number(t, p), LAMBDA coefficient :
            Then(VariableName(t, Blank(t, coefficient.pos)), LAMBDA variable :
                Matched(variable.pos,
                        [coefficient |-> coefficient.val, variable |-> Str(variable.val)]))),
       Or(Then(VariableName(t, p), LAMBDA variable :
                Matched(variable.pos, [coefficient |-> Num(1), variable |-> Str(variable.val)])),
          Then(Number(t, p), LAMBDA number :
                Matched(number.pos, [coefficient |-> number.val, variable |-> Null]))))

\* Math.abs(v)
Abs(v) == IF v.k = "number" /\ v.n < 0 THEN [v EXCEPT !.n = -v.n] ELSE v
\* -v on a number of the text
Minus(v) == IF v.k = "number" THEN [v EXCEPT !.n = -v.n] ELSE NaN

TermWithSign(t, p) ==
    IF Ch(t, p) \notin {"+", "-"} THEN Failed
    ELSE Then(Term(t, Blank(t, p + 1)), LAMBDA term :
            Matched(term.pos,
                    [term.val EXCEPT !.coefficient = IF Ch(t, p) = "+" THEN Abs(@)
                                                                       ELSE Minus(Abs(@))]))

\* (_ ("+" / "-") _ (TermWithSign / Term))* and the loop of the action: r
\* holds the position and the terms so far
RECURSIVE ExpressionRest(_, _)
ExpressionRest(t, r) ==
    IF Ch(t, Blank(t, r.pos)) \notin {"+", "-"} THEN r
    ELSE Or(Then(Or(TermWithSign(t, Blank(t, Blank(t, r.pos) + 1)),
                    Term(t, Blank(t, Blank(t, r.pos) + 1))),
                 LAMBDA term :
                    ExpressionRest(t, Matched(term.pos,
                        Append(r.val, IF Ch(t, Blank(t, r.pos)) = "-"
                                      THEN [term.val EXCEPT !.coefficient = Minus(@)]
                                      ELSE term.val)))),
            r)

Expression(t, p) ==
    Then(Or(TermWithSign(t, p), Term(t, p)),
         LAMBDA first : ExpressionRest(t, Matched(first.pos, <<first.val>>)))

\* (VariableName ":")?
Label(t, p) ==
    Or(Then(VariableName(t, p), LAMBDA name : Lit(t, name.pos, ":", FALSE)), Matched(p, Null))

Objective(t, p) ==
    Then(Keyword(t, p, <<"Maximize", "Minimize", "MAX", "MIN">>, 1), LAMBDA objectiveType :
        Then(Expression(t, Blank(t, Label(t, Blank(t, objectiveType.pos)).pos)), LAMBDA expr :
            Matched(expr.pos,
                    [type |-> IF SubSeq(LowerCase(objectiveType.val), 1, 3) = "max"
                              THEN "max" ELSE "min",
                     expression |-> expr.val])))

\* The action of the rule belongs to its last alternative only
ConstraintSense(t, p) ==
    Or(Lit(t, p, "<=", FALSE), Or(Lit(t, p, ">=", FALSE), Or(Lit(t, p, "=", FALSE),
       Or(Lit(t, p, "=<", FALSE), Or(Lit(t, p, "=>", FALSE),
          IF Lit(t, p, "<", FALSE).ok THEN Matched(p + 1, "<=") ELSE Failed)))))

Constraint(t, p) ==
    Then(Expression(t, Blank(t, Label(t, p).pos)), LAMBDA expr :
        Then(ConstraintSense(t, Blank(t, expr.pos)), LAMBDA sense :
            Then(SignedNumber(t, Blank(t, sense.pos)), LAMBDA value :
                Matched(Blank(t, value.pos),
                        [expression |-> expr.val, sense |-> sense.val, value |-> value.val]))))

InfinityNumber(t, p) ==
    Or(Then(Keyword(t, p, <<"-infinity", "+infinity", "-inf", "+inf">>, 1), LAMBDA infinity :
            Matched(infinity.pos,
                    Str(IF Ch(infinity.val, 1) = "-" THEN "-infinity" ELSE "+infinity"))),
       SignedNumber(t, p))

\* The value of a Bound: a field its alternative does not set is undefined
BoundOf(variable, lower, upper, range) ==
    [variable |-> variable, lower |-> lower, upper |-> upper, range |-> range]

\* InfinityNumber _ "<=" _ VariableName _: the value is the bound with the
\* lower side
LowerBound(t, p) ==
    Then(InfinityNumber(t, p), LAMBDA lower :
        Then(Lit(t, Blank(t, lower.pos), "<=", FALSE), LAMBDA le :
            Then(VariableName(t, Blank(t, le.pos)), LAMBDA variable :
                Matched(Blank(t, variable.pos),
                        BoundOf(variable.val, lower.val, Undefined, Undefined)))))

\* "<=" _ InfinityNumber _ after the bound r: the value is r with the upper side
UpperBound(t, r) ==
    Then(Lit(t, r.pos, "<=", FALSE), LAMBDA le :
        Then(InfinityNumber(t, Blank(t, le.pos)), LAMBDA upper :
            Matched(Blank(t, upper.pos), [r.val EXCEPT !.upper = upper.val])))

\* VariableName _
Listed(t, p) ==
    Then(VariableName(t, p), LAMBDA name : Matched(Blank(t, name.pos), name.val))

Bound(t, p) ==
    Or(Then(Listed(t, p), LAMBDA variable :
            Then(Lit(t, variable.pos, "free", TRUE), LAMBDA free :
                Matched(Blank(t, free.pos),
                        BoundOf(variable.val, Undefined, Undefined, Str("free"))))),
       Or(Then(LowerBound(t, p), LAMBDA lower : UpperBound(t, lower)),
          Or(Then(Listed(t, p), LAMBDA variable :
                    UpperBound(t, Matched(variable.pos,
                                          BoundOf(variable.val, Undefined, Undefined, Undefined)))),
             LowerBound(t, p))))

\* The rule that a section repeats
Repeated(rule, t, p) ==
    CASE rule = "Constraint" -> Constraint(t, p)
      [] rule = "Bound" -> Bound(t, p)
      [] rule = "VariableName _" -> Listed(t, p)

\* rule*: r holds the position and the values so far
RECURSIVE Many(_, _, _)
Many(rule, t, r) ==
    Or(Then(Repeated(rule, t, r.pos), LAMBDA next :
            Many(rule, t, Matched(next.pos, Append(r.val, next.val)))),
       r)

\* header _ rule+
Section(header, rule, t) ==
    Then(header, LAMBDA h :
        Then(Repeated(rule, t, Blank(t, h.pos)), LAMBDA first :
            Many(rule, t, Matched(first.pos, <<first.val>>))))

Constraints(t, p) ==
    Section(Keyword(t, p, <<"Subject To", "ST", "S.T.">>, 1), "Constraint", t)
Bounds(t, p) == Section(Lit(t, p, "Bounds", TRUE), "Bound", t)
General(t, p) == Section(GeneralHeader(t, p), "VariableName _", t)
Binary(t, p) == Section(BinaryHeader(t, p), "VariableName _", t)

\* rule? _ : without a match the value is null, which LPFile turns into []
Optional(r, t, p) == IF r.ok THEN [r EXCEPT !.pos = Blank(t, r.pos)] ELSE Matched(p, <<>>)

\* LPFile, the start rule: all of the text has to match
LPFile(t) ==
    Then(Objective(t, Blank(t, 1)), LAMBDA header :
    Then(Constraints(t, Blank(t, header.pos)), LAMBDA constrs :
    Then(Optional(Bounds(t, Blank(t, constrs.pos)), t, Blank(t, constrs.pos)), LAMBDA bounds :
    Then(Optional(General(t, bounds.pos), t, bounds.pos), LAMBDA general :
    Then(Optional(Binary(t, general.pos), t, general.pos), LAMBDA binary :
    Then(Lit(t, binary.pos, "End", TRUE), LAMBDA end :
        IF Blank(t, end.pos) = Len(t) + 1
        THEN Matched(Len(t) + 1,
                     [objective |-> header.val, constraints |-> constrs.val,
                      bounds |-> bounds.val, general |-> general.val, binary |-> binary.val])
        ELSE Failed))))))

\* The outcome of the parse: the value of the start rule, or a SyntaxError
Outcome(r) == IF r.ok THEN Returned(r.val) ELSE Threw

\* parse(lpString)
parse(lpString) == Outcome(LPFile(lpString))

----------------------------------------------------------------------------
(* fromLPFormat: the loader of the LP text                                 *)

\* model.clear().  The sources hold no such method; it is taken from the
\* description of parse-from-text, which replaces the current contents: the
\* Model is as its constructor leaves it.
Clear(m) ==
    [variables |-> <<>>, constraints |-> <<>>,
     objective |-> [expression |-> <<Num(0)>>, sense |-> "MAXIMIZE"], varCount |-> 0,
     solution |-> Null, status |-> Null, ObjVal |-> Null, threw |-> FALSE]

\* The Model m after a call of addVar whose outcome is r
Added(m, r) == [m EXCEPT !.variables = r.variables, !.varCount = r.varCount, !.threw = r.threw]

\* p.bounds.forEach(...) from bound i on
RECURSIVE LoadBounds(_, _, _)
LoadBounds(m, bounds, i) ==
    IF m.threw \/ i > Len(bounds) THEN m
    ELSE LoadBounds(
            Added(m, addVar(m.variables, m.varCount,
                            IF bounds[i].range = Str("free") THEN Str("-infinity")
                                                             ELSE bounds[i].lower,
                            IF bounds[i].range = Str("free") THEN Str("+infinity")
                                                             ELSE bounds[i].upper,
                            Undefined, Str(bounds[i].variable))),
            bounds, i + 1)

\* p.binary.forEach(...), p.general.forEach(...) from name i on
RECURSIVE MarkTypes(_, _, _, _)
MarkTypes(m, names, vtype, i) ==
    IF m.threw \/ i > Len(names) THEN m
    ELSE MarkTypes(
            IF Has(m.variables, names[i])
            THEN [m EXCEPT !.variables[IndexOf(m.variables, names[i])].vtype = vtype]
            ELSE Added(m, addVar(m.variables, m.varCount, Undefined, Undefined, Str(vtype),
                                 Str(names[i]))),
            names, vtype, i + 1)

\* allVariables: the variable of every term of the objective and of the
\* constraints (null for a bare number), each once, in the order of its
\* first occurrence
RECURSIVE AllVariables(_, _, _)
AllVariables(terms, seen, i) ==
    IF i > Len(terms) THEN seen
    ELSE AllVariables(terms,
                      IF \E j \in 1..Len(seen) : seen[j] = terms[i].variable
                      THEN seen ELSE Append(seen, terms[i].variable),
                      i + 1)

\* The terms of all the constraints from constraint i on
RECURSIVE ConstraintTerms(_, _)
ConstraintTerms(cs, i) ==
    IF i > Len(cs) THEN <<>> ELSE cs[i].expression \o ConstraintTerms(cs, i + 1)

\* allVariables.forEach(...) from name i on
RECURSIVE Declare(_, _, _)
Declare(m, names, i) ==
    IF m.threw \/ i > Len(names) THEN m
    ELSE Declare(IF names[i] # Null /\ Has(m.variables, names[i].s) THEN m
                 ELSE Added(m, addVar(m.variables, m.varCount, Undefined, Undefined,
                                      Undefined, names[i])),
                 names, i + 1)

\* expression.map(term => [term.coefficient, model.variables.get(term.variable)])
TermsOf(vs, expression) ==
    [i \in 1..Len(expression) |->
        Arr(<<expression[i].coefficient,
              IF expression[i].variable = Null THEN Undefined
              ELSE Get(vs, expression[i].variable.s)>>)]

\* The Model m after a call of setObjective whose outcome is r
WithObjective(m, r) ==
    IF r.threw THEN [m EXCEPT !.threw = TRUE] ELSE [m EXCEPT !.objective = r.value]

\* The Model m after a call of addConstr whose outcome is r
WithConstr(m, r) ==
    IF r.threw THEN [m EXCEPT !.threw = TRUE]
    ELSE [m EXCEPT !.constraints = Append(m.constraints, r.value)]

\* p.constraints.forEach(...) from constraint i on
RECURSIVE LoadConstraints(_, _, _)
LoadConstraints(m, cs, i) ==
    IF m.threw \/ i > Len(cs) THEN m
    ELSE LoadConstraints(
            WithConstr(m, addConstr(m.variables, TermsOf(m.variables, cs[i].expression),
                                    cs[i].sense, cs[i].value)),
            cs, i + 1)

\* fromLPFormat from "Add objective" on
LoadObjective(m, p) ==
    IF m.threw THEN m
    ELSE LoadConstraints(
            WithObjective(m, setObjective(m.variables,
                                          TermsOf(m.variables, p.objective.expression),
                                          IF p.objective.type = "max" THEN "MAXIMIZE"
                                                                      ELSE "MINIMIZE")),
            p.constraints, 1)

\* fromLPFormat from model.clear() on, p being the value of the parse
Loaded(m, p) ==
    LoadObjective(
        Declare(MarkTypes(MarkTypes(LoadBounds(Clear(m), p.bounds, 1), p.binary, "BINARY", 1),
                          p.general, "INTEGER", 1),
                AllVariables(p.objective.expression \o ConstraintTerms(p.constraints, 1),
                             <<>>, 1),
                1),
        p)

\* fromLPFormat after the parse, p being the outcome of the parse
AfterParse(m, p) ==
    IF p.threw
    THEN [variables |-> m.variables, constraints |-> m.constraints, objective |-> m.objective,
          varCount |-> m.varCount, solution |-> m.solution, status |-> m.status,
          ObjVal |-> m.ObjVal, threw |-> TRUE]
    ELSE Loaded(m, p.value)

\* fromLPFormat(model, lpString): the Model it leaves and whether it threw
fromLPFormat(m, lpString) == AfterParse(m, parse(lpString))

\* fromLPFormat(model, lpString)
FromLPFormat(lpString) ==
    /\ call' = [op |-> "fromLPFormat", lpString |-> lpString]
    /\ \E m \in {fromLPFormat(ModelNow, lpString)} :
            /\ Store(m)
            /\ objective' = m.objective
            /\ varCount' = m.varCount
            /\ ret' = IF m.threw THEN Threw ELSE Returned(Undefined)
    /\ UNCHANGED pending

----------------------------------------------------------------------------
(* SpecLP: a linear Model is written, and the text is loaded into it       *)

\* The registry of a Model: x with the given options, then y or not
LPRegistry(lb, ub, vtype, second) ==
    IF second
    THEN addVar(addVar(<<>>, 0, lb, ub, vtype, Str("x")).variables, 0,
                Undefined, Undefined, Undefined, Str("y")).variables
    ELSE addVar(<<>>, 0, lb, ub, vtype, Str("x")).variables

\* The objectives: the one of the constructor, 2 x to minimize, 2 x + 3 and
\* x - y to maximize
LPObjectives(vs) ==
    {[expression |-> <<Num(0)>>, sense |-> "MAXIMIZE"],
     setObjective(vs, <<Arr(<<Num(2), Own("x")>>)>>, "MINIMIZE").value,
     setObjective(vs, <<Arr(<<Num(2), Own("x")>>), Num(3)>>, "MAXIMIZE").value}
        \cup (IF Has(vs, "y")
              THEN {setObjective(vs, <<Own("x"), Arr(<<Num(-1), Own("y")>>)>>, "MAXIMIZE").value}
              ELSE {})

\* The lists of constraints: none, x <= 3, 2 x >= -1 and x = 2
LPConstraints(vs) ==
    {<<>>,
     <<addConstr(vs, <<Own("x")>>, "<=", Num(3)).value>>,
     <<addConstr(vs, <<Arr(<<Num(2), Own("x")>>)>>, ">=", Num(-1)).value,
       addConstr(vs, <<Own("x")>>, "=", Num(2)).value>>}

InitLP ==
    \E lb \in {Undefined, Num(-5), Str("-infinity")}, ub \in {Undefined, Num(10)},
       vtype \in {Undefined, Str("INTEGER"), Str("BINARY")}, second \in BOOLEAN :
        \E vs \in {LPRegistry(lb, ub, vtype, second)} :
            \E obj \in LPObjectives(vs), cs \in LPConstraints(vs) :
                Built(vs, 0, obj, cs)

CallToLPFormat == call.op = "build" /\ ToLPFormat

\* The text that toLPFormat returned is loaded
CallFromLPFormat == call.op = "toLPFormat" /\ FromLPFormat(ret.value.s)

SpecLP == InitLP /\ [][CallToLPFormat \/ CallFromLPFormat]_vars

----------------------------------------------------------------------------
(* SpecNames: a Model whose variable has a name that is, or begins with, a *)
(* keyword of the LP text is written, and the text is loaded into it       *)

\* The names: a keyword or another word, in some letter case, alone or
\* followed by more characters
NamePrefixes ==
    {"bin", "Bin", "BIN", "binary", "Binaries", "gen", "Gen", "general", "GENERALS",
     "end", "End", "END", "x", "b", "en"}
NameSuffixes == {"", "1", "_x", "Time"}

\* The variable `name` with the bounds 0 and 10; 2 name to maximize; name <= 4
InitNames ==
    \E prefix \in NamePrefixes, suffix \in NameSuffixes :
        \E vs \in {addVar(<<>>, 0, Undefined, Num(10), Undefined, Str(prefix \o suffix)).variables} :
            Built(vs, 0,
                  setObjective(vs, <<Arr(<<Num(2), Own(prefix \o suffix)>>)>>, "MAXIMIZE").value,
                  <<addConstr(vs, <<Own(prefix \o suffix)>>, "<=", Num(4)).value>>)

SpecNames == InitNames /\ [][CallToLPFormat \/ CallFromLPFormat]_vars

----------------------------------------------------------------------------
(* SpecLoad: a caller adds constraints to a Model and loads LP texts into  *)
(* it                                                                      *)

MaxLoaded == 2   \* constraints of the Model before a call of addConstr

\* The operators the caller passes to addConstr
Operators == {"<=", "=", ">=", "==", "=>", "<", "!="}

\* The spellings of the operator of a constraint in a text, and the text that
\* has one constraint under the spelling
Senses == {"<=", ">=", "=", "<", ">", "=<", "=>"}
SenseText(sense) == "max\n obj: 2 z\nst\n c1: z " \o sense \o " 4\nend"

\* The texts the caller loads: one constraint under each spelling of the
\* operator, a text with no constraint section, a text that ends early, a
\* constraint with a bare number, two bounds of one variable, bounds and
\* kinds, an objective with a bare number, an infinity as an upper bound and
\* on both sides, a name under both kinds
LoadTexts ==
    {SenseText(sense) : sense \in Senses}
        \cup {"maximize\n obj: z\nend",
              "min\n z\nst\n z <= 4\n",
              "min\n z\nst\n z + 3 <= 4\nend",
              "min\n z\nst\n z >= 1\nbounds\n z <= 4\n 1 <= z\nend",
              "min\n z - w\nst\n z - w = 1\nbounds\n -inf <= z <= 5\ngeneral\n w\nend",
              "min\n 3 - z\nst\n z >= 1\nend",
              "min\n z\nst\n z >= 1\nbounds\n z <= -inf\nend",
              "min\n z\nst\n z >= 1\nbounds\n -inf <= z <= +inf\nend",
              "min\n z\nst\n z >= 1\ngeneral\n z\nbinary\n z\nend"}

InitLoad ==
    \E second \in BOOLEAN :
        \E vs \in {LPRegistry(Undefined, Undefined, Undefined, second)} :
            \E obj \in {[expression |-> <<Num(0)>>, sense |-> "MAXIMIZE"],
                        setObjective(vs, <<Arr(<<Num(2), Own("x")>>)>>, "MINIMIZE").value},
               cs \in {<<>>, <<addConstr(vs, <<Own("x")>>, "<=", Num(3)).value>>} :
                Built(vs, 0, obj, cs)

CallAddConstrWith ==
    /\ Len(constraints) < MaxLoaded
    /\ \E v \in RegisteredNames(variables), comparison \in Operators :
            AddConstr(<<Own(v)>>, comparison, Num(5))

CallLoad == \E lpString \in LoadTexts : FromLPFormat(lpString)

SpecLoad == InitLoad /\ [][CallAddConstrWith \/ CallLoad]_vars

----------------------------------------------------------------------------
(* What the properties speak of                                            *)

\* The sum of W over the items of e
SumOver(e, W(_)) ==
    LET f[i \in 0..Len(e)] == IF i = 0 THEN 0 ELSE f[i - 1] + W(e[i]) IN f[Len(e)]

\* What one item adds to the constant, to the coefficient of variable v, to
\* the coefficient of the product of v and w
ConstantIn(item) == IF item.k = "number" THEN item.n ELSE 0
LinearIn(item, v) ==
    CASE item.k = "Var" -> IF item.name = v THEN 1 ELSE 0
      [] item.k = "array" /\ Len(item.a) = 2 -> IF item.a[2].name = v THEN item.a[1].n ELSE 0
      [] OTHER -> 0
PairIn(item, v, w) ==
    IF item.k = "array" /\ Len(item.a) = 3
    THEN IF {item.a[2].name, item.a[3].name} = {v, w} THEN item.a[1].n ELSE 0
    ELSE 0

\* A term of a canonical expression: a numeric non-zero coefficient, then one
\* Variable or two
IsTerm(t) ==
    /\ t.k = "array"
    /\ Len(t.a) \in {2, 3}
    /\ t.a[1].k = "number"
    /\ t.a[1].n # 0
    /\ \A j \in 2..Len(t.a) : t.a[j].k = "Var"

\* The variable, or the unordered pair of variables, a term refers to
Refers(t) == <<Len(t.a), {t.a[j].name : j \in 2..Len(t.a)}>>

Canonical(e) ==
    /\ Len(e) >= 1
    /\ e[1].k = "number"
    /\ \A i \in 2..Len(e) : IsTerm(e[i])
    /\ \A i, j \in 2..Len(e) : Refers(e[i]) = Refers(e[j]) => i = j

\* The canonical expression e carries the constant and the coefficients of
\* the items `plus` less those of the items `minus`
Carries(e, names, plus, minus) ==
    /\ Canonical(e)
    /\ e[1].n = SumOver(plus, ConstantIn) - SumOver(minus, ConstantIn)
    /\ \A v \in names :
            SumOver(e, LAMBDA t : LinearIn(t, v))
                = SumOver(plus, LAMBDA t : LinearIn(t, v)) - SumOver(minus, LAMBDA t : LinearIn(t, v))
    /\ \A v, w \in names :
            SumOver(e, LAMBDA t : PairIn(t, v, w))
                = SumOver(plus, LAMBDA t : PairIn(t, v, w)) - SumOver(minus, LAMBDA t : PairIn(t, v, w))

\* The rearrangements of a sequence
Rearranged(e) == {[i \in 1..Len(e) |-> e[p[i]]] : p \in Permutations(1..Len(e))}

\* The sequence with the two variables of every product exchanged
Exchanged(e) ==
    [i \in 1..Len(e) |->
        IF e[i].k = "array" /\ Len(e[i].a) = 3
        THEN Arr(<<e[i].a[1], e[i].a[3], e[i].a[2]>>)
        ELSE e[i]]

ParseExpressionReturned == call.op = "parseExpression" /\ ret # Running
AddConstrReturned == call.op = "addConstr" /\ ret # Running

----------------------------------------------------------------------------
(* Properties                                                              *)

\* C1: for every left side, operator among <=, =, >=, == and right side
\* (a number or an expression), addConstr appends exactly one constraint; its
\* lhs has constant 0 and, for each variable and each pair, the coefficient
\* of the left side less that of the right side (none when that is 0); its
\* rhs is the constants of the right side less those of the left side.
C1_AddConstrFolds ==
    (AddConstrReturned /\ call.comparison \in {"<=", "=", ">=", "=="}) =>
        /\ ~ret.threw
        /\ Len(constraints) = 1
        /\ constraints[1].comparison = (IF call.comparison = "==" THEN "=" ELSE call.comparison)
        /\ constraints[1].rhs.k = "number"
        /\ Carries(<<Num(-constraints[1].rhs.n)>> \o Tail(constraints[1].lhs),
                   RegisteredNames(variables), call.lhs,
                   IF IsNumber(call.rhs) THEN <<call.rhs>> ELSE call.rhs.a)
        /\ Canonical(constraints[1].lhs)
        /\ constraints[1].lhs[1] = Num(0)

\* C2: for every valid sequence of items, parseExpression returns the sum of
\* the constants and, for every variable and every pair, one term carrying the
\* sum of its coefficients; every rearrangement of the sequence gives the same
\* constant and the same coefficients.
C2_OrderIndependentMerging ==
    ParseExpressionReturned =>
        /\ ~ret.threw
        /\ Carries(ret.value, RegisteredNames(variables), call.expression, <<>>)
        /\ \A q \in Rearranged(call.expression) :
                /\ ~parseExpression(variables, q).threw
                /\ Carries(parseExpression(variables, q).value, RegisteredNames(variables),
                           call.expression, <<>>)

\* C3: the objective expression and the lhs of every constraint are
\* canonical (a numeric constant first, then terms with non-zero coefficients,
\* no two of them on the same variable or the same unordered pair), and the
\* lhs of every constraint has constant 0.
C3_ExpressionsCanonical ==
    /\ Canonical(objective.expression)
    /\ \A i \in 1..Len(constraints) :
            Canonical(constraints[i].lhs) /\ constraints[i].lhs[1] = Num(0)

\* C4: exchanging the two variables of a product does not change what
\* parseExpression returns (same coefficient, same ordered pair of Variables),
\* and the products of one unordered pair merge into one term carrying the sum
\* of their coefficients.
C4_ProductSymmetric ==
    ParseExpressionReturned =>
        /\ ret = parseExpression(variables, Exchanged(call.expression))
        /\ (\A i \in 1..Len(call.expression) :
                call.expression[i].k = "array" /\ Len(call.expression[i].a) = 3) =>
                /\ ~ret.threw
                /\ Carries(ret.value, RegisteredNames(variables), call.expression, <<>>)

\* C4's case: 2xy and 2yx were passed and one term 4xy came back
C4_Witness ==
    /\ ParseExpressionReturned
    /\ call.expression = <<Arr(<<Num(2), Own("x"), Own("y")>>), Arr(<<Num(2), Own("y"), Own("x")>>)>>
    /\ ret = Returned(<<Num(0), Arr(<<Num(4), Own("x"), Own("y")>>)>>)

\* The last call was a solve through one of the three bridges and its promise
\* is fulfilled
SolveFulfilled ==
    call.op = "solve" /\ ret = Returned(Undefined) /\ Bridge(call.solver) \in Bridges

\* The engine's answer to the last solve reports an optimal solution
EngineOptimal ==
    CASE Bridge(call.solver) = "highs" -> Field(call.response, "Status") = Str("Optimal")
      [] Bridge(call.solver) = "glpk" ->
            Field(Field(call.response, "result"), "status") = Num(GLP_OPT)
      [] Bridge(call.solver) = "jsLPSolver" ->
            Truthy(Field(call.response, "feasible")) /\ Truthy(Field(call.response, "bounded"))

\* The engine's answer to the last solve reports that no feasible solution exists
EngineInfeasible ==
    CASE Bridge(call.solver) = "highs" -> Field(call.response, "Status") = Str("Infeasible")
      [] Bridge(call.solver) = "glpk" ->
            Field(Field(call.response, "result"), "status") = Num(GLP_NOFEAS)
      [] Bridge(call.solver) = "jsLPSolver" -> ~Truthy(Field(call.response, "feasible"))

\* The objective value in the engine's answer to the last solve
EngineObjective ==
    CASE Bridge(call.solver) = "highs" -> Field(call.response, "ObjectiveValue")
      [] Bridge(call.solver) = "glpk" -> Field(Field(call.response, "result"), "z")
      [] Bridge(call.solver) = "jsLPSolver" -> Field(call.response, "result")

\* The Model m as it is before its first solve
NeverSolved(m) ==
    [m EXCEPT !.solution = Null, !.status = Null, !.ObjVal = Null,
              !.variables = [i \in 1..Len(m.variables) |->
                                [m.variables[i] EXCEPT !.value = Undefined]],
              !.constraints = [i \in 1..Len(m.constraints) |->
                                [m.constraints[i] EXCEPT !.primal = Undefined,
                                                         !.dual = Undefined]]]

(* C5: every call of solve first sets status, ObjVal, every variable's     *)
(* value and every constraint's primal and dual to null; while the call    *)
(* waits for its engine, and after a call that failed (the encoder or the  *)
(* engine raised) or did nothing (the handle is none of the three          *)
(* engines), no session field holds a result of an earlier solve.          *)
C5_SolveResetsSession ==
    (call.op = "solve" /\ (ret = Running \/ ret = Threw \/ Bridge(call.solver) = "none"))
        => /\ status = Null
           /\ ObjVal = Null
           /\ \A i \in 1..Len(variables) : variables[i].value = Null
           /\ \A i \in 1..Len(constraints) :
                    constraints[i].primal = Null /\ constraints[i].dual = Null

(* C6: after a fulfilled solve through a bridge that follows a fulfilled   *)
(* solve through a bridge on the same Model, status, ObjVal, the values    *)
(* and the primals and duals are those that the second solve alone, with   *)
(* the same answer, leaves on the Model never solved before.               *)
C6_SolvesIndependent ==
    (SolveFulfilled /\ call.prior.fulfilled /\ Bridge(call.prior.solver) \in Bridges)
        => ModelNow = Decoded(Cleared(NeverSolved(ModelNow)), Bridge(call.solver), call.response)

\* A solve through HiGHS answered Infeasible, right after a fulfilled solve
\* through jsLPSolver that gave the variable a value: the value is gone
C6_Witness ==
    /\ SolveFulfilled
    /\ Bridge(call.solver) = "highs"
    /\ call.prior.fulfilled
    /\ Bridge(call.prior.solver) = "jsLPSolver"
    /\ Field(call.response, "Status") = Str("Infeasible")
    /\ status = Str("Infeasible")
    /\ ObjVal = Null
    /\ \A i \in 1..Len(variables) : variables[i].value = Null

(* C7: after a fulfilled solve whose engine reports an optimal solution,   *)
(* ObjVal is the engine's objective value plus the constant of the Model's *)
(* objective, with each of the three bridges and for every objective       *)
(* value, 0 included.                                                      *)
C7_ObjValAddsConstant ==
    (SolveFulfilled /\ EngineOptimal)
        => ObjVal = JSAdd(EngineObjective, objective.expression[1])

(* C8: after a fulfilled solve through glpk.js, status is one of the five  *)
(* strings Optimal, Feasible, Infeasible, Unbounded, Undefined; and when   *)
(* the engine of any bridge reports that no feasible solution exists,      *)
(* status is the string Infeasible.                                        *)
C8_StatusIsMapped ==
    SolveFulfilled
        => /\ Bridge(call.solver) = "glpk"
                => status \in {Str("Optimal"), Str("Feasible"), Str("Infeasible"),
                               Str("Unbounded"), Str("Undefined")}
           /\ EngineInfeasible => status = Str("Infeasible")

\* The variables of ws are those of vs, each with the same bounds and kind
SameBoundsAndKinds(vs, ws) ==
    /\ RegisteredNames(ws) = RegisteredNames(vs)
    /\ \A i \in 1..Len(vs) : \A j \in 1..Len(ws) :
            ws[j].key = vs[i].key
                => ws[j].lb = vs[i].lb /\ ws[j].ub = vs[i].ub /\ ws[j].vtype = vs[i].vtype

\* The constraints of ds are those of cs, in the same order
SameConstraints(cs, ds) ==
    /\ Len(ds) = Len(cs)
    /\ \A i \in 1..Len(cs) :
            ds[i].lhs = cs[i].lhs /\ ds[i].comparison = cs[i].comparison /\ ds[i].rhs = cs[i].rhs

(* C9: loading the text that toLPFormat wrote of a Model with linear terms *)
(* only succeeds and leaves a Model with the same objective (expression    *)
(* and sense), the same constraints in the same order and, for every       *)
(* variable, the same bounds and kind; the empty list of constraints       *)
(* included.                                                               *)
C9_RoundTrip ==
    [][ (/\ call.op = "toLPFormat"
         /\ call'.op = "fromLPFormat"
         /\ call'.lpString = ret.value.s
         /\ ~isQuadratic(ModelNow))
            => /\ ret' = Returned(Undefined)
               /\ objective' = objective
               /\ SameConstraints(constraints, constraints')
               /\ SameBoundsAndKinds(variables, variables') ]_vars

\* The registry holds every name once, under a Variable of that name
NamesOnce(vs) ==
    \A i, j \in 1..Len(vs) :
        /\ vs[i].name = vs[i].key
        /\ vs[i].key = vs[j].key => i = j

\* C10: after every addVar and addVars the registry holds every name once,
\* under a Variable of that name; no call replaces or removes a registered
\* Variable; addVar with a registered name raises; addVar without a name
\* appends a Variable named Var<N>, N the first index from the counter on
\* whose name is free.
C10_NamesUnique ==
    [][/\ NamesOnce(variables')
       /\ \A i \in 1..Len(variables) :
                i <= Len(variables') /\ variables'[i] = variables[i]
       /\ (call'.op = "addVar" /\ call'.name # Undefined /\ Has(variables, call'.name.s)) =>
                ret'.threw /\ variables' = variables
       /\ (call'.op = "addVar" /\ call'.name = Undefined /\ ~ret'.threw) =>
                /\ Len(variables') = Len(variables) + 1
                /\ variables'[Len(variables')].key = DefaultName(varCount' - 1)
                /\ ret'.value = Own(DefaultName(varCount' - 1))
                /\ ~Has(variables, DefaultName(varCount' - 1))
                /\ \A n \in varCount..(varCount' - 2) : Has(variables, DefaultName(n))
      ]_vars

\* C10's case: Var1 was registered by name, then two calls without a name
\* registered Var0 and, Var1 being taken, Var2
C10_Witness ==
    /\ Len(variables) = 3
    /\ variables[1].key = "Var1"
    /\ variables[2].key = "Var0"
    /\ variables[3].key = "Var2"
    /\ varCount = 3
    /\ call.op = "addVar"
    /\ call.name = Undefined
    /\ ret = Returned(Own("Var2"))

(* C11: a call of addVar, setObjective or addConstr that raises leaves the *)
(* Model as it was before the call: the registry, the objective, the       *)
(* constraints and the counter of the default names are unchanged.         *)
C11_FailedCallLeavesModel ==
    [][ (call'.op \in {"addVar", "setObjective", "addConstr"} /\ ret' = Threw)
            => UNCHANGED <<variables, objective, constraints, varCount>> ]_vars

(* C12: a call of addVars that raises registers none of its names: the     *)
(* registry is as it was before the call.                                  *)
C12_FailedAddVarsRegistersNothing ==
    [][ (call'.op = "addVars" /\ ret' = Threw) => variables' = variables ]_vars

(* C13: addConstr accepts the operators <=, =, >= and ==, and no other: a  *)
(* call with one of them appends one constraint carrying that operator,   *)
(* = for ==; a call with any other operator raises and appends nothing.   *)
(* In every state every constraint of the Model, added by a call or by    *)
(* loading a text, has <=, = or >= as its comparison.                      *)
C13_OperatorsChecked ==
    /\ [](\A i \in 1..Len(constraints) : constraints[i].comparison \in {"<=", "=", ">="})
    /\ [][ call'.op = "addConstr" =>
                IF call'.comparison \in {"<=", "=", ">=", "=="}
                THEN /\ ~ret'.threw
                     /\ Len(constraints') = Len(constraints) + 1
                     /\ SubSeq(constraints', 1, Len(constraints)) = constraints
                     /\ constraints'[Len(constraints')].comparison =
                            (IF call'.comparison = "==" THEN "=" ELSE call'.comparison)
                ELSE ret' = Threw /\ constraints' = constraints ]_vars

\* C13's case: a text whose constraint is written with < was loaded, then
\* addConstr was called with ==: the Model holds <= and =
C13_Witness ==
    /\ call.op = "addConstr"
    /\ call.comparison = "=="
    /\ ~ret.threw
    /\ Has(variables, "z")
    /\ Len(constraints) = 2
    /\ constraints[1].comparison = "<="
    /\ constraints[2].comparison = "="

(* C14: when the objective or a constraint of the Model has a quadratic    *)
(* term, a solve through glpk.js or through jsLPSolver hands no request to *)
(* the engine: the encoder raises.                                         *)
C14_QuadraticNotEncoded ==
    (call.op = "solve" /\ Bridge(call.solver) \in {"glpk", "jsLPSolver"} /\ isQuadratic(ModelNow))
        => call.request.threw

\* v is a Variable that the registry vs holds
IsRegistered(vs, v) == v.k = "Var" /\ v.own /\ Has(vs, v.name)

\* The item is of one of the four accepted shapes, the Variables of a pair or
\* of a triple being registered
Accepted(vs, item) ==
    \/ item.k = "number"
    \/ item.k = "Var"
    \/ /\ item.k = "array"
       /\ Len(item.a) \in {2, 3}
       /\ item.a[1].k = "number"
       /\ \A i \in 2..Len(item.a) : IsRegistered(vs, item.a[i])

(* C15: parseExpression raises when an item is not a number, a Variable, a *)
(* pair [number, Variable] or a triple [number, Variable, Variable], and   *)
(* when a pair or a triple names a Variable that is not registered in the  *)
(* Model; every term of an expression that it returns refers to Variables  *)
(* of the registry only.                                                   *)
C15_InvalidTermsRaise ==
    ParseExpressionReturned =>
        /\ (\E i \in 1..Len(call.expression) : ~Accepted(variables, call.expression[i]))
                => ret.threw
        /\ ~ret.threw =>
                \A i \in 2..Len(ret.value) : \A j \in 2..Len(ret.value[i].a) :
                    IsRegistered(variables, ret.value[i].a[j])

\* A Model as its constructor leaves it
Constructed ==
    [variables |-> <<>>, constraints |-> <<>>,
     objective |-> [expression |-> <<Num(0)>>, sense |-> "MAXIMIZE"], varCount |-> 0,
     solution |-> Null, status |-> Null, ObjVal |-> Null]

\* The names of the terms that carry one
TermNames(terms) ==
    {terms[i].variable.s : i \in {j \in 1..Len(terms) : terms[j].variable # Null}}

\* The names that the parsed text p declares: those of its bounds, of its
\* sections of kinds and of the terms of its objective and constraints
DeclaredNames(p) ==
    {p.bounds[i].variable : i \in 1..Len(p.bounds)}
        \cup {p.general[i] : i \in 1..Len(p.general)}
        \cup {p.binary[i] : i \in 1..Len(p.binary)}
        \cup TermNames(p.objective.expression \o ConstraintTerms(p.constraints, 1))

(* C16: fromLPFormat with a text that the grammar does not match raises    *)
(* and leaves the variables, the objective and the constraints as they     *)
(* were.  With a text that the grammar matches, the Model afterwards holds *)
(* only what the text declares: its variables are among the names of the   *)
(* text, and its variables and constraints are those that the same text    *)
(* leaves in a new Model, nothing of the Model before the call being kept. *)
C16_LoadReplaces ==
    [][ call'.op = "fromLPFormat" =>
            \A p \in {parse(call'.lpString)} :
                IF p.threw
                THEN ret' = Threw /\ UNCHANGED <<variables, objective, constraints>>
                ELSE /\ RegisteredNames(variables') \subseteq DeclaredNames(p.value)
                     /\ variables' = Loaded(Constructed, p.value).variables
                     /\ constraints' = Loaded(Constructed, p.value).constraints ]_vars

\* The object o without the properties whose key is not in keys
Restricted(o, keys) == Obj(SelectSeq(o.entries, LAMBDA e : e.key \in keys))

\* The part of the answer s that holds one property for each variable it names
Named(bridge, s) ==
    CASE bridge = "highs" -> Field(s, "Columns")
      [] bridge = "glpk" -> Field(Field(s, "result"), "vars")
      [] bridge = "jsLPSolver" -> s

\* The value that the answer s holds for the variable name
ValueIn(bridge, s, name) ==
    IF bridge = "highs" THEN Field(Field(Named(bridge, s), name), "Primal")
    ELSE Field(Named(bridge, s), name)

\* The answer s without the variables and the rows that the Model m has not
Matching(m, bridge, s) ==
    CASE bridge = "highs" ->
            SetProp(SetProp(s, "Columns",
                            Restricted(Field(s, "Columns"), RegisteredNames(m.variables))),
                    "Rows",
                    Arr(SubSeq(Field(s, "Rows").a, 1, Len(m.constraints))))
      [] bridge = "glpk" ->
            SetProp(s, "result",
                SetProp(IF Field(Field(s, "result"), "dual") = Undefined
                        THEN Field(s, "result")
                        ELSE SetProp(Field(s, "result"), "dual",
                                     Restricted(Field(Field(s, "result"), "dual"),
                                                {"cons" \o ToString(i) :
                                                    i \in 1..Len(m.constraints)})),
                        "vars",
                        Restricted(Field(Field(s, "result"), "vars"),
                                   RegisteredNames(m.variables))))
      [] bridge = "jsLPSolver" ->
            Restricted(s, {"feasible", "result", "bounded"} \cup RegisteredNames(m.variables))

\* The answer s makes the decoder of the bridge write the values of the
\* variables
WritesValues(bridge, s) ==
    bridge = "highs" => Field(s, "Status") \in {Str("Optimal"), Str("Feasible")}

(* C17: an answer that names a variable or a row that the Model has not    *)
(* does not make the decoder raise; the decoder leaves the Model as the    *)
(* same answer without those names does, so no variable or constraint is   *)
(* added or altered for them, and every variable that the answer names and *)
(* the Model has is given its value.  With glpk.js and HiGHS a variable    *)
(* that the answer does not name keeps its value: null after a solve.      *)
C17_UnmatchedNamesIgnored ==
    [][ /\ call'.op = "readSolution" =>
            /\ ret' = Returned(Undefined)
            /\ ModelNow' = readSolution(ModelNow, call'.bridge,
                                        Matching(ModelNow, call'.bridge, call'.solution))
            /\ [i \in 1..Len(variables') |-> variables'[i].key]
                    = [i \in 1..Len(variables) |-> variables[i].key]
            /\ Len(constraints') = Len(constraints)
            /\ \A i \in 1..Len(variables) :
                    IF HasProp(Named(call'.bridge, call'.solution), variables[i].key)
                    THEN WritesValues(call'.bridge, call'.solution) =>
                            variables'[i].value
                                = ValueIn(call'.bridge, call'.solution, variables[i].key)
                    ELSE call'.bridge \in {"glpk", "highs"} =>
                            variables'[i].value = variables[i].value
        /\ (/\ call'.op = "solve"
            /\ ret' = Returned(Undefined)
            /\ Bridge(call'.solver) \in {"glpk", "highs"}
            /\ call'.response.k = "object") =>
                \A i \in 1..Len(variables') :
                    ~HasProp(Named(Bridge(call'.solver), call'.response), variables'[i].key)
                        => variables'[i].value = Null
      ]_vars

\* C17's case: HiGHS answered a solve with an optimal solution that names x,
\* not y, and names w and a second row: x and the constraint have their
\* values, y has null, the Model has no third variable, no second constraint
C17_Witness ==
    /\ SolveFulfilled
    /\ Bridge(call.solver) = "highs"
    /\ call.response.k = "object"
    /\ Field(call.response, "Status") = Str("Optimal")
    /\ HasProp(Field(call.response, "Columns"), "w")
    /\ Len(variables) = 2
    /\ variables[1].value = Num(1)
    /\ variables[2].value = Null
    /\ Len(constraints) = 1
    /\ constraints[1].primal = Num(1)
    /\ constraints[1].dual = Num(2)

(* C18: with each of the three bridges solve decodes the answer of the     *)
(* engine once the answer is there: when the engine returns a promise, the *)
(* status and the values that the Model holds once the promise of solve is *)
(* fulfilled are those decoded from the value the engine's promise settled *)
(* with.                                                                   *)
C18_DecodesAwaitedAnswer ==
    SolveFulfilled =>
        ModelNow = Decoded(Cleared(ModelNow), Bridge(call.solver), Awaited(call.response))

SameButValues(vs, ws) ==
    /\ Len(ws) = Len(vs)
    /\ \A i \in 1..Len(vs) : ws[i] = [vs[i] EXCEPT !.value = ws[i].value]

\* From cs to ds only the primals and the duals of the constraints differ
SameButDuals(cs, ds) ==
    /\ Len(ds) = Len(cs)
    /\ \A i \in 1..Len(cs) :
            ds[i] = [cs[i] EXCEPT !.primal = ds[i].primal, !.dual = ds[i].dual]

(* C20: toLPFormat, toGLPKFormat and toJSLPSolverFormat leave the Model as *)
(* it is, and a call that follows the same call on the unchanged Model     *)
(* returns the same output.  readHighsSolution, readGLPKSolution and       *)
(* readJSLPSolverSolution change nothing but status, ObjVal, the values of *)
(* the variables and the primals and duals of the constraints: names,      *)
(* bounds, kinds, lhs, operators, rhs, the objective, the number and the   *)
(* order of the variables and of the constraints stay.                     *)
C20_EncodersPureDecodersFramed ==
    [][ /\ call'.op \in {"toLPFormat", "toGLPKFormat", "toJSLPSolverFormat"} =>
            /\ ModelNow' = ModelNow
            /\ call' = call => ret' = ret
        /\ call'.op = "readSolution" =>
            /\ objective' = objective
            /\ varCount' = varCount
            /\ solution' = solution
            /\ SameButValues(variables, variables')
            /\ SameButDuals(constraints, constraints') ]_vars

\* C20's case: the answer of glpk.js was decoded into the Model, then the
\* Model was written as LP text: the values are there, the bounds, the
\* constraint and the objective are as built
C20_Witness ==
    /\ call.op = "toLPFormat"
    /\ ret = Returned(Str(toLPFormat(ModelNow)))
    /\ solution = Null
    /\ status = Num(GLP_OPT)
    /\ variables[1].value = Num(1)
    /\ variables[1].lb = Num(0)
    /\ constraints[1].dual = Num(2)
    /\ constraints[1].rhs = Num(3)
    /\ objective.expression[1] = Num(2)


\* The variable, or the unordered pair of variables, an item of the input
\* refers to; a bare number refers to none
ItemRefers(item) ==
    CASE item.k = "Var" -> <<2, {item.name}>>
      [] item.k = "array" -> <<Len(item.a), {item.a[j].name : j \in 2..Len(item.a)}>>
      [] OTHER -> <<0, {}>>

\* The place of the first item of e that refers to what the term t refers to
FirstSeen(e, t) == CHOOSE i \in 1..Len(e) :
    /\ ItemRefers(e[i]) = Refers(t)
    /\ \A j \in 1..(i - 1) : ItemRefers(e[j]) # Refers(t)

\* C21: the terms that parseExpression returns stand in the order in which
\* their variable, or their pair of variables, first occurs in the input, for
\* every name, the names that are digit strings ("2", "10") included.
C21_FirstSeenOrder ==
    (ParseExpressionReturned /\ ~ret.threw) =>
        \A i, j \in 2..Len(ret.value) :
            i < j => FirstSeen(call.expression, ret.value[i]) < FirstSeen(call.expression, ret.value[j])

\* The fields of a jsLPSolver answer that are not values of variables
JSAnswerFields == {"feasible", "result", "bounded", "isIntegral"}

\* The value a jsLPSolver answer holds for the variable `name`, 0 when it
\* holds none
JSValueOf(s, name) ==
    IF name \notin JSAnswerFields /\ HasProp(s, name) THEN Field(s, name) ELSE Num(0)

\* The jsLPSolver answer that the last call decoded, when it decoded one
JSDecoded ==
    CASE call.op = "solve" /\ Bridge(call.solver) = "jsLPSolver" /\ ret = Returned(Undefined) ->
            <<call.response>>
      [] call.op = "readSolution" /\ call.bridge = "jsLPSolver" -> <<call.solution>>
      [] OTHER -> <<>>

\* C22: once a jsLPSolver answer is decoded, status is Optimal when the
\* answer is feasible and bounded, Unbounded when it is feasible and not
\* bounded, Infeasible when it is not feasible; every variable of the Model,
\* whatever its name, has the value the answer holds for it, or 0 when the
\* answer holds none; and after a jsLPSolver solve every constraint's primal
\* and dual are null.
C22_JSLPSolverDecoded ==
    \A i \in 1..Len(JSDecoded) : \A s \in {JSDecoded[i]} :
        /\ status = Str(IF Field(s, "feasible") = Bool(TRUE)
                        THEN (IF Field(s, "bounded") = Bool(TRUE) THEN "Optimal" ELSE "Unbounded")
                        ELSE "Infeasible")
        /\ \A v \in 1..Len(variables) : variables[v].value = JSValueOf(s, variables[v].key)
        /\ call.op = "solve" =>
                \A c \in 1..Len(constraints) :
                    constraints[c].primal = Null /\ constraints[c].dual = Null

\* The last call was toGLPKFormat and it returned the request
GLPKEncoded == call.op = "toGLPKFormat" /\ ~ret.threw

\* The type of the bounds lb and ub of a variable
BoundType(lb, ub) ==
    CASE lb = Str("-infinity") /\ ub = Str("+infinity") -> GLP_FR
      [] lb = Str("-infinity") /\ ub # Str("+infinity") -> GLP_UP
      [] lb # Str("-infinity") /\ ub = Str("+infinity") -> GLP_LO
      [] OTHER -> IF lb = ub THEN GLP_FX ELSE GLP_DB

\* C23: the request of toGLPKFormat has one bound record for every variable,
\* in the order of the registry; its type is free when both bounds are
\* unbounded, lower-only when only the lower bound is finite, upper-only when
\* only the upper bound is finite, double when both are finite and differ,
\* fixed when both are finite and equal; lb and ub are the finite bound, and 0
\* for an unbounded side.
C23_GLPKBoundTypes ==
    GLPKEncoded =>
        \E bounds \in {Field(ret.value, "bounds").a} :
            /\ Len(bounds) = Len(variables)
            /\ \A i \in 1..Len(variables) :
                /\ Field(bounds[i], "name") = Str(variables[i].name)
                /\ Field(bounds[i], "type") = Num(BoundType(variables[i].lb, variables[i].ub))
                /\ Field(bounds[i], "lb") = (IF variables[i].lb = Str("-infinity") THEN Num(0)
                                             ELSE variables[i].lb)
                /\ Field(bounds[i], "ub") = (IF variables[i].ub = Str("+infinity") THEN Num(0)
                                             ELSE variables[i].ub)

\* C27: the request of toGLPKFormat has one row for every constraint, in the
\* order of the Model, named cons1, cons2, ...; the bounds of the row state
\* the relation of the constraint: an upper bound rhs for <= rhs, a lower
\* bound rhs for >= rhs, a lower and an upper bound both rhs for = rhs.
C27_GLPKRowsKeepRelation ==
    GLPKEncoded =>
        \E rows \in {Field(ret.value, "subjectTo").a} :
            /\ Len(rows) = Len(constraints)
            /\ \A i \in 1..Len(constraints) :
                \E bnds \in {Field(rows[i], "bnds")} :
                    /\ Field(rows[i], "name") = Str("cons" \o ToString(i))
                    /\ constraints[i].comparison = "<=" =>
                            /\ Field(bnds, "type") = Num(GLP_UP)
                            /\ Field(bnds, "ub") = constraints[i].rhs
                    /\ constraints[i].comparison = ">=" =>
                            /\ Field(bnds, "type") = Num(GLP_LO)
                            /\ Field(bnds, "lb") = constraints[i].rhs
                    /\ constraints[i].comparison = "=" =>
                            /\ Field(bnds, "type") \in {Num(GLP_FX), Num(GLP_DB)}
                            /\ Field(bnds, "lb") = constraints[i].rhs
                            /\ Field(bnds, "ub") = constraints[i].rhs

\* The last call was toJSLPSolverFormat and it returned the request
JSLPEncoded == call.op = "toJSLPSolverFormat" /\ ~ret.threw

\* The request has the constraint `name` with the side `side` at `bound`, and
\* the entry of the variable v carries the coefficient 1 for it
BoundRow(request, v, name, side, bound) ==
    /\ HasProp(Field(request, "constraints"), name)
    /\ Field(Field(Field(request, "constraints"), name), side) = bound
    /\ Field(Field(Field(request, "variables"), v), name) = Num(1)

\* C24: in the request of toJSLPSolverFormat a finite upper bound of a
\* variable is the constraint <var>_ub with max = ub, a finite lower bound
\* other than 0 is the constraint <var>_lb with min = lb, the entry of the
\* variable carries the coefficient 1 for each of them, and a variable whose
\* lower bound is negative or -infinity is flagged unrestricted.
C24_JSLPBoundsConstrain ==
    JSLPEncoded =>
        \A i \in 1..Len(variables) : \E v \in {variables[i]} :
            /\ v.ub # Str("+infinity") =>
                    BoundRow(ret.value, v.key, v.key \o "_ub", "max", v.ub)
            /\ (v.lb # Str("-infinity") /\ v.lb # Num(0)) =>
                    BoundRow(ret.value, v.key, v.key \o "_lb", "min", v.lb)
            /\ (v.lb = Str("-infinity") \/ v.lb.n < 0) =>
                    Field(Field(ret.value, "unrestricted"), v.key) = Num(1)

\* The operator that a spelling stands for
Normalized(sense) ==
    CASE sense \in {"<", "<=", "=<"} -> "<="
      [] sense \in {">", ">=", "=>"} -> ">="
      [] OTHER -> "="

\* C25: a text whose constraint is written with <, >, <=, >=, =, =< or => is
\* accepted, and the constraint that fromLPFormat builds of it carries <= for
\* <, <= and =<, >= for >, >= and =>, and = for =.
C25_SensesNormalized ==
    \A sense \in Senses :
        (call.op = "fromLPFormat" /\ call.lpString = SenseText(sense)) =>
            /\ ~ret.threw
            /\ Len(constraints) = 1
            /\ constraints[1].comparison = Normalized(sense)
            /\ constraints[1].rhs = Num(4)

\* The section keywords and End, in lower case
KeywordNames == {"binary", "binaries", "bin", "general", "generals", "gen", "end"}

\* C26: the rule VariableName rejects a name only when the name is a section
\* keyword or End, in any letter case; a name that begins with a keyword and
\* goes on (bin1, gen_x, endTime) is matched whole, and the text that
\* toLPFormat writes of a Model with such a variable is loaded: fromLPFormat
\* returns and the Model has the variable.
C26_KeywordPrefixNames ==
    call.op = "fromLPFormat" =>
        \A i \in 1..Len(variables) : \E name \in {variables[i].key} :
            IF LowerCase(name) \in KeywordNames
            THEN ~VariableName(name \o " ", 1).ok
            ELSE /\ \E r \in {VariableName(name \o " ", 1)} :
                        r.ok /\ r.pos = Len(name) + 1 /\ r.val = name
                 /\ ~ret.threw


\* C28: fromLPFormat raises only when the grammar does not match the text.
\* With a text that the grammar matches it returns, and the Model holds the
\* objective and every constraint of the text and a variable for every name
\* of the text: texts with a bare number as a term, with two bounds of one
\* variable, with an infinity on either side of a bound and with a name under
\* both kinds included.
C28_AcceptedTextsLoad ==
    call.op = "fromLPFormat" =>
        \A p \in {parse(call.lpString)} :
            ~p.threw =>
                /\ ~ret.threw
                /\ Len(constraints) = Len(p.value.constraints)
                /\ objective.sense = (IF p.value.objective.type = "max" THEN "MAXIMIZE"
                                                                        ELSE "MINIMIZE")
                /\ DeclaredNames(p.value) \subseteq RegisteredNames(variables)

\* The Model is as one solve that decoded the answer r of the bridge leaves it
FromOneAnswer(bridge, r) == ModelNow = Decoded(Cleared(ModelNow), bridge, r)

\* C29: when no solve is waiting any more, status, ObjVal, solution, the
\* values of the variables and the primal and dual of the constraints are
\* those of one answer of one engine, also when a solve was started while
\* another was waiting for glpk.js.
C29_OverlappingSolvesUnmixed ==
    (call.op = "solve" /\ pending = <<>>) =>
        \E bridge \in Bridges : \E r \in OverlapAnswers(bridge) : FromOneAnswer(bridge, r)

\* An injective renaming of the variables that keeps the order of the names:
\* a < ab < b < c as a < a_***_b < b < constant
Renamed(name) ==
    CASE name = "constant" -> "c"
      [] name = "a_***_b" -> "ab"
      [] OTHER -> name

RenamedVar(v) == IF v.k = "Var" THEN [v EXCEPT !.name = Renamed(v.name)] ELSE v

RenamedItem(item) ==
    IF item.k = "array" THEN Arr([j \in 1..Len(item.a) |-> RenamedVar(item.a[j])])
    ELSE RenamedVar(item)

RenamedAll(e) == [i \in 1..Len(e) |-> RenamedItem(e[i])]

\* C30: the constant that parseExpression returns is the sum of the bare
\* numbers of the input whatever the names of the variables, and the call
\* returns the same expression, up to the renaming, as the call on the renamed
\* variables: also for the names "constant" and "a_***_b", under which it
\* keeps the constant and the product of a and b.
C30_NamesDoNotMatter ==
    ParseExpressionReturned =>
        /\ ~ret.threw
        /\ ret.value[1] = Num(SumOver(call.expression, ConstantIn))
        /\ Returned(RenamedAll(ret.value))
                = parseExpression(RegistryOf([i \in 1..Len(KeyNames) |-> Renamed(KeyNames[i])]),
                                  RenamedAll(call.expression))
====
